---------------------------- MODULE Spec2Model ----------------------------
(***************************************************************************)
(* Model of the task-sync subsystem of datacore (.datacore/lib/sync):      *)
(* the conflict detector and resolver (conflict.py), the durable conflict  *)
(* queue (conflict.py, sqlite) and the sync engine's pull (engine.py).     *)
(*                                                                         *)
(* Python values are represented as follows.                               *)
(*   str            a sequence of one-character strings                    *)
(*   None (of str)  the sequence None, which no str equals                 *)
(*   Enum member    a string naming the member                             *)
(*   None (of Enum) the string PyNone                                      *)
(*   dict           a function from keys to values                         *)
(*   datetime       see the section of each component                      *)
(***************************************************************************)
EXTENDS Integers, Sequences, FiniteSets, TLC

VARIABLES
    \* ---- detector / resolver (conflict.py) ----
    org_task,        \* the OrgTask handed to detect
    external_task,   \* the ExternalTask handed to detect
    conflict,        \* what detect returned (NoConflict for None), as mutated by resolve
    strategies,      \* ConflictResolver.strategies of the resolver in use
    resolution,      \* what resolve returned (NoResolution before)
    pc,              \* position of the detect / resolve caller
    \* ---- conflict queue (conflict.py, table sync_conflicts) ----
    rows,            \* committed rows of table sync_conflicts
    seq,             \* sqlite_sequence of the table (AUTOINCREMENT)
    lock,            \* holder of the database write lock
    clock,           \* wall clock, in ticks
    proc,            \* per sync invocation: the queue call it is in
    \* ---- sync engine (engine.py) ----
    adapters,        \* SyncEngine.adapters, in insertion order
    idx,             \* position of pull_all's loop over the adapters
    all_changes,     \* pull_all's accumulator / return value
    called,          \* adapters whose pull_changes was called, in call order
    errlog,          \* adapters whose pull error was printed
    epc,             \* position of pull_all
    \* ---- sync engine: push_all (engine.py) ----
    changes,             \* the list of changes handed to push_all
    changes_by_adapter,  \* push_all's dict of groups, in insertion order
    gidx,                \* position of push_all's loop over the groups
    pushed,              \* the push_changes calls made: adapter, group, outcome
    result,              \* push_all's SyncResult
    ppc,                 \* position of push_all
    \* ---- sync engine: sync (engine.py) and the github pull (github.py) ----
    issues,          \* the issues of the remote repository
    stime,           \* wall clock of the sync runs, in ticks
    _last_sync,      \* SyncEngine._last_sync (<<>> for None)
    run,             \* the pull of the current sync run
    ok_pull,         \* history: the time of the last pull that completed
    spc,             \* position of sync
    \* ---- github adapter: push_changes (github.py) ----
    gh_repos,        \* bool(GitHubAdapter.repos)
    gh_issues,       \* the issues of the remote repository, by number
    gh_changes,      \* the changes handed to push_changes
    gh_i,            \* position of push_changes' loop
    gh_result,       \* push_changes' SyncResult
    gh_log,          \* history: the remote operation made for each change
    gh_runs,         \* number of push_changes calls made
    gpc,             \* position of push_changes
    \* ---- task router: route and external_to_org (router.py) ----
    rules,           \* TaskRouter.rules
    rt_task,         \* the ExternalTask being routed
    rt_adapter,    \* the name of the adapter the task came from
    rt_i,            \* position of route's loop over the rules
    evaluated,       \* history: the condition results of the rules tried
    routing,         \* the dict route returned
    new_task,        \* the OrgTask external_to_org returned
    rpc              \* position of external_to_org

detVars == <<org_task, external_task, conflict, strategies, resolution, pc>>
queueVars == <<rows, seq, lock, clock, proc>>
engVars == <<adapters, idx, all_changes, called, errlog, epc>>
pushVars == <<changes, changes_by_adapter, gidx, pushed, result, ppc>>
syncVars == <<issues, stime, _last_sync, run, ok_pull, spc>>
ghVars == <<gh_repos, gh_issues, gh_changes, gh_i, gh_result, gh_log,
           gh_runs, gpc>>
routerVars == <<rules, rt_task, rt_adapter, rt_i, evaluated, routing,
               new_task, rpc>>
laterVars == <<pushVars, syncVars, ghVars, routerVars>>
vars == <<org_task, external_task, conflict, strategies, resolution, pc,
          rows, seq, lock, clock, proc,
          adapters, idx, all_changes, called, errlog, epc,
          changes, changes_by_adapter, gidx, pushed, result, ppc,
          issues, stime, _last_sync, run, ok_pull, spc,
          gh_repos, gh_issues, gh_changes, gh_i, gh_result, gh_log,
          gh_runs, gpc,
          rules, rt_task, rt_adapter, rt_i, evaluated, routing, new_task,
          rpc>>

-----------------------------------------------------------------------------
(* Python str operations used by the code *)

None == <<"None">>
PyNone == "None"

Whitespace == {" ", "\n", "\t"}

UpperChars == <<"A","B","C","D","E","F","G","H","I","J","K","L","M",
                "N","O","P","Q","R","S","T","U","V","W","X","Y","Z">>
LowerChars == <<"a","b","c","d","e","f","g","h","i","j","k","l","m",
                "n","o","p","q","r","s","t","u","v","w","x","y","z">>

LowerChar(c) ==
    IF \E i \in 1..Len(UpperChars) : UpperChars[i] = c
    THEN LowerChars[CHOOSE i \in 1..Len(UpperChars) : UpperChars[i] = c]
    ELSE c

\* str.lower()
lower(s) == [i \in 1..Len(s) |-> LowerChar(s[i])]

RECURSIVE lstrip(_)
lstrip(s) ==
    IF s # <<>> /\ Head(s) \in Whitespace THEN lstrip(Tail(s)) ELSE s

RECURSIVE rstrip(_)
rstrip(s) ==
    IF s # <<>> /\ s[Len(s)] \in Whitespace
    THEN rstrip(SubSeq(s, 1, Len(s) - 1))
    ELSE s

\* str.strip()
strip(s) == rstrip(lstrip(s))

\* the longest prefix of s without whitespace
FirstWord(s) ==
    LET k == CHOOSE k \in 0..Len(s) :
                 /\ \A j \in 1..k : s[j] \notin Whitespace
                 /\ k < Len(s) => s[k + 1] \in Whitespace
    IN  SubSeq(s, 1, k)

\* str.split() with no argument: the maximal runs of non-whitespace
RECURSIVE split(_)
split(s) ==
    LET t == lstrip(s)
        w == FirstWord(t)
    IN  IF t = <<>> THEN <<>>
        ELSE <<w>> \o split(SubSeq(t, Len(w) + 1, Len(t)))

\* " ".join(words)
RECURSIVE join(_)
join(words) ==
    IF words = <<>> THEN <<>>
    ELSE IF Len(words) = 1 THEN Head(words)
    ELSE Head(words) \o <<" ">> \o join(Tail(words))

\* sub in s
Contains(sub, s) ==
    \E i \in 0..(Len(s) - Len(sub)) : SubSeq(s, i + 1, i + Len(sub)) = sub

\* x or ""   for an Optional[str] x
OrEmpty(x) == IF x = None THEN <<>> ELSE x

-----------------------------------------------------------------------------
(* adapters/base.py: enumerations *)

TaskState == {"TODO", "NEXT", "WAITING", "DONE", "CANCELLED"}

\* Priority.NONE is a member whose value is None; PyNone is "no priority"
Priority_NONE == "Priority.NONE"
Priority == {"A", "B", "C", Priority_NONE}

\* the .value of an enum member, as the str / None the code stores
EnumValue(m) == IF m = Priority_NONE THEN None ELSE
    CASE m = "A" -> <<"A">>
      [] m = "B" -> <<"B">>
      [] m = "C" -> <<"C">>
      [] m = "TODO" -> <<"T","O","D","O">>
      [] m = "NEXT" -> <<"N","E","X","T">>
      [] m = "WAITING" -> <<"W","A","I","T","I","N","G">>
      [] m = "DONE" -> <<"D","O","N","E">>
      [] m = "CANCELLED" -> <<"C","A","N","C","E","L","L","E","D">>

(* conflict.py: enumerations *)

ConflictType ==
    {"state", "title", "description", "priority", "deadline", "labels", "comments"}

ORG_WINS == "org_wins"
EXTERNAL_WINS == "external_wins"
MERGE == "merge"
ASK == "ask"
ConflictStrategy == {ORG_WINS, EXTERNAL_WINS, MERGE, ASK}

\* ConflictField(field_name, conflict_type, org_value, external_value)
ConflictField(name, type, org_value, external_value) ==
    [field_name |-> name, conflict_type |-> type,
     org_value |-> org_value, external_value |-> external_value]

\* the Optional[ConflictField] None
NoField == [field_name |-> "None"]


-----------------------------------------------------------------------------
(* Python datetime as the detector sees it: a calendar day and a time of
   day.  NoDatetime is the Optional[datetime] None. *)

NoDatetime == [none |-> TRUE]
Datetime(day, hour) == [day |-> day, hour |-> hour]

\* datetime.date(), as an Optional: <<>> for None, <<day>> otherwise
DateOf(dt) == IF dt = NoDatetime THEN <<>> ELSE <<dt.day>>

Digits == <<"1","2","3","4","5","6","7","8","9">>

\* str(date): "2025-01-0<day>" for the days 1..9 of the model
DateStr(d) ==
    IF d = <<>> THEN None
    ELSE <<"2","0","2","5","-","0","1","-","0", Digits[d[1]]>>

-----------------------------------------------------------------------------
(* conflict.py: ConflictDetector *)

DESC_LIMIT == 200
Ellipsis == <<".", ".", ".">>

S_closed == <<"c","l","o","s","e","d">>
S_done == <<"d","o","n","e">>
S_completed == <<"c","o","m","p","l","e","t","e","d">>
S_resolved == <<"r","e","s","o","l","v","e","d">>

\* a variant of _check_state_conflict that compares the external state as
\* it is, without lower()
_check_state_conflict_nolower(org, ext) ==
    LET external_state == ext.state
        external_closed ==
            external_state \in {S_closed, S_done, S_completed, S_resolved}
        org_closed == org.state \in {"DONE", "CANCELLED"}
    IN  IF org_closed # external_closed
        THEN ConflictField("state", "state", EnumValue(org.state), external_state)
        ELSE NoField

_check_state_conflict(org, ext) ==
    LET org_state == org.state
        external_state == lower(ext.state)
        external_closed ==
            external_state \in {S_closed, S_done, S_completed, S_resolved}
        org_closed == org_state \in {"DONE", "CANCELLED"}
    IN  IF org_closed # external_closed
        THEN ConflictField("state", "state", EnumValue(org_state), external_state)
        ELSE NoField

\* re.sub(r'^\[.*?\]\s*', '', title): a leading bracketed tag (up to the
\* first "]", on one line) and the whitespace after it are removed
StripBracketPrefix(title) ==
    IF title # <<>> /\ Head(title) = "["
       /\ \E j \in 2..Len(title) :
             /\ title[j] = "]"
             /\ \A k \in 2..(j - 1) : title[k] \notin {"]", "\n"}
    THEN LET j == CHOOSE j \in 2..Len(title) :
                     /\ title[j] = "]"
                     /\ \A k \in 2..(j - 1) : title[k] \notin {"]", "\n"}
         IN  lstrip(SubSeq(title, j + 1, Len(title)))
    ELSE title

_normalize_title(title) == strip(lower(StripBracketPrefix(title)))

_check_title_conflict(org, ext) ==
    LET org_title == strip(org.title)
        external_title == strip(ext.title)
        org_normalized == _normalize_title(org_title)
        external_normalized == _normalize_title(external_title)
    IN  IF org_normalized # external_normalized
        THEN ConflictField("title", "title", org_title, external_title)
        ELSE NoField

\* hashlib.md5 of the whitespace-normalized content.  md5 is taken to be
\* collision-free: the digest is represented by the text it digests.
_content_hash(content) == <<"md5">> \o join(split(content))

\* body[:200] + "..." if len(body) > 200 else body
Truncate(body) ==
    IF Len(body) > DESC_LIMIT
    THEN SubSeq(body, 1, DESC_LIMIT) \o Ellipsis
    ELSE body

\* a variant of _check_description_conflict without the "both have content"
\* test
_check_description_conflict_onesided(org, ext) ==
    LET org_body == strip(OrEmpty(org.body))
        external_body == strip(OrEmpty(ext.body))
    IN  IF _content_hash(org_body) # _content_hash(external_body)
        THEN ConflictField("description", "description",
                           Truncate(org_body), Truncate(external_body))
        ELSE NoField

_check_description_conflict(org, ext) ==
    LET org_body == strip(OrEmpty(org.body))
        external_body == strip(OrEmpty(ext.body))
        org_hash == _content_hash(org_body)
        external_hash == _content_hash(external_body)
    IN  IF org_hash # external_hash /\ org_body # <<>> /\ external_body # <<>>
        THEN ConflictField("description", "description",
                           Truncate(org_body), Truncate(external_body))
        ELSE NoField

S_high == <<"h","i","g","h">>
S_medium == <<"m","e","d","i","u","m">>
S_low == <<"l","o","w">>
S_p1 == <<"p","1">>
S_p2 == <<"p","2">>
S_p3 == <<"p","3">>
S_priority_high == <<"p","r","i","o","r","i","t","y","-">> \o S_high
S_priority_medium == <<"p","r","i","o","r","i","t","y","-">> \o S_medium
S_priority_low == <<"p","r","i","o","r","i","t","y","-">> \o S_low

\* the priority one label stands for, PyNone when it stands for none
LabelPriority(label) ==
    LET label_lower == lower(label)
    IN  IF Contains(S_high, label_lower) \/ label = S_p1 \/ label = S_priority_high
        THEN "A"
        ELSE IF Contains(S_medium, label_lower) \/ label = S_p2
                \/ label = S_priority_medium
        THEN "B"
        ELSE IF Contains(S_low, label_lower) \/ label = S_p3
                \/ label = S_priority_low
        THEN "C"
        ELSE PyNone

RECURSIVE _extract_priority_from_labels(_)
_extract_priority_from_labels(labels) ==
    IF labels = <<>> THEN PyNone
    ELSE IF LabelPriority(Head(labels)) # PyNone
    THEN LabelPriority(Head(labels))
    ELSE _extract_priority_from_labels(Tail(labels))

\* x.value if x else None: every Priority member is truthy, Priority.NONE too
PriorityValue(p) == IF p = PyNone THEN None ELSE EnumValue(p)

_check_priority_conflict(org, ext) ==
    LET org_priority == org.priority
        external_priority == _extract_priority_from_labels(ext.labels)
    IN  IF org_priority # external_priority
        THEN ConflictField("priority", "priority",
                           PriorityValue(org_priority),
                           PriorityValue(external_priority))
        ELSE NoField

\* a variant of _check_deadline_conflict that compares the datetimes, not
\* their dates
_check_deadline_conflict_time(org, ext) ==
    LET org_deadline == org.deadline
        external_deadline == ext.due_date
        org_date == DateOf(org_deadline)
        external_date == DateOf(external_deadline)
    IN  IF org_deadline # external_deadline
           /\ org_deadline # NoDatetime /\ external_deadline # NoDatetime
        THEN ConflictField("deadline", "deadline",
                           DateStr(org_date), DateStr(external_date))
        ELSE NoField

_check_deadline_conflict(org, ext) ==
    LET org_deadline == org.deadline
        external_deadline == ext.due_date
        org_date == DateOf(org_deadline)
        external_date == DateOf(external_deadline)
    IN  IF org_date # external_date
           /\ org_deadline # NoDatetime /\ external_deadline # NoDatetime
        THEN ConflictField("deadline", "deadline",
                           DateStr(org_date), DateStr(external_date))
        ELSE NoField

\* the Optional[Conflict] None
NoConflict == [none |-> TRUE]

S_external_colon == <<"e","x","t","e","r","n","a","l",":">>

\* ConflictDetector.detect; last_sync is not read.  now is datetime.now()
\* when the Conflict is built; resolved_at is <<>> for None
\* a variant of FieldChecks that runs the priority check first
FieldChecks_priority_first(org, ext) ==
    << _check_priority_conflict(org, ext),
       _check_state_conflict(org, ext),
       _check_title_conflict(org, ext),
       _check_description_conflict(org, ext),
       _check_deadline_conflict(org, ext) >>

\* the five checks of detect, in the order detect runs them
FieldChecks(org, ext) ==
    << _check_state_conflict(org, ext),
       _check_title_conflict(org, ext),
       _check_description_conflict(org, ext),
       _check_priority_conflict(org, ext),
       _check_deadline_conflict(org, ext) >>

detect(org, ext, last_sync, now) ==
    LET checks == FieldChecks(org, ext)
        conflicts == SelectSeq(checks, LAMBDA f : f # NoField)
    IN  IF conflicts = <<>> THEN NoConflict
        ELSE [external_id |->
                  IF org.external_id # None /\ org.external_id # <<>>
                  THEN org.external_id
                  ELSE S_external_colon \o ext.id,
              org_task_id |-> org.id,
              fields |-> conflicts,
              detected_at |-> now,
              resolved |-> FALSE,
              resolved_at |-> <<>>,
              resolution_strategy |-> PyNone,
              resolved_by |-> <<>>]

-----------------------------------------------------------------------------
(* conflict.py: ConflictResolver *)

\* a variant of DEFAULT_STRATEGIES in which priority is external_wins
DEFAULT_STRATEGIES_priority_external ==
    [t \in ConflictType |->
        CASE t = "priority" -> EXTERNAL_WINS
          [] t \in {"state", "title", "deadline"} -> ORG_WINS
          [] t \in {"description", "labels"} -> MERGE
          [] t = "comments" -> EXTERNAL_WINS]

DEFAULT_STRATEGIES ==
    [t \in ConflictType |->
        CASE t = "state" -> ORG_WINS
          [] t = "title" -> ORG_WINS
          [] t = "description" -> MERGE
          [] t = "priority" -> ORG_WINS
          [] t = "deadline" -> ORG_WINS
          [] t = "labels" -> MERGE
          [] t = "comments" -> EXTERNAL_WINS]

\* ConflictResolver.__init__: the defaults overridden by config
ResolverStrategies(config) ==
    [t \in ConflictType |->
        IF t \in DOMAIN config THEN config[t] ELSE DEFAULT_STRATEGIES[t]]

\* dict
EmptyDict == <<>>
DictSet(d, k, v) == [x \in (DOMAIN d) \cup {k} |-> IF x = k THEN v ELSE d[x]]

\* strategies.get(t, default)
StrategyGet(strat, t, default) == IF t \in DOMAIN strat THEN strat[t] ELSE default

S_merge_separator ==
    <<"\n","\n","-","-","-","\n","[","M","e","r","g","e","d"," ","f","r","o","m",
      " ","e","x","t","e","r","n","a","l","]","\n">>

_merge_descriptions(org_desc, external_desc) ==
    LET org_normalized == lower(strip(org_desc))
        external_normalized == lower(strip(external_desc))
    IN  IF Contains(org_normalized, external_normalized) THEN external_desc
        ELSE IF Contains(external_normalized, org_normalized) THEN org_desc
        ELSE org_desc \o S_merge_separator \o external_desc

\* a Python list built from a set: its order is not defined, so the value
\* keeps the elements only
ListOfSet(S) == [list_of_set |-> S]
Elements(labels) ==
    IF labels = None THEN {} ELSE {labels[i] : i \in 1..Len(labels)}

_merge_labels(org_labels, external_labels) ==
    ListOfSet(Elements(org_labels) \cup Elements(external_labels))

\* Optional[Any]: a merged value, or the None of a merge that is not possible
Some(v) == [is_none |-> FALSE, value |-> v]
Nothing == [is_none |-> TRUE]

_try_merge(field_conflict) ==
    IF field_conflict.conflict_type = "description"
    THEN Some(_merge_descriptions(field_conflict.org_value,
                                  field_conflict.external_value))
    ELSE IF field_conflict.conflict_type = "labels"
    THEN Some(_merge_labels(field_conflict.org_value,
                            field_conflict.external_value))
    ELSE Nothing

\* a variant of ResolveField in which org_wins writes to org_changes and
\* external_wins to external_changes
ResolveField_swapped(acc, f, strat) ==
    LET strategy == StrategyGet(strat, f.conflict_type, ASK)
        name == f.field_name
    IN  IF strategy = ORG_WINS
        THEN [acc EXCEPT !.org_changes = DictSet(@, name, f.org_value)]
        ELSE IF strategy = EXTERNAL_WINS
        THEN [acc EXCEPT !.external_changes = DictSet(@, name, f.external_value)]
        ELSE [acc EXCEPT !.needs_human_review = TRUE]

\* one pass of resolve's loop over conflict.fields; acc holds org_changes,
\* external_changes, needs_human_review and notes
ResolveField(acc, f, strat) ==
    LET strategy == StrategyGet(strat, f.conflict_type, ASK)
        name == f.field_name
    IN  IF strategy = ORG_WINS
        THEN [acc EXCEPT
                !.external_changes = DictSet(@, name, f.org_value),
                !.notes = Append(@, <<name, "org wins">>)]
        ELSE IF strategy = EXTERNAL_WINS
        THEN [acc EXCEPT
                !.org_changes = DictSet(@, name, f.external_value),
                !.notes = Append(@, <<name, "external wins">>)]
        ELSE IF strategy = MERGE
        THEN LET merged == _try_merge(f)
             IN  IF ~merged.is_none
                 THEN [acc EXCEPT
                         !.org_changes = DictSet(@, name, merged.value),
                         !.external_changes = DictSet(@, name, merged.value),
                         !.notes = Append(@, <<name, "merged">>)]
                 ELSE [acc EXCEPT
                         !.needs_human_review = TRUE,
                         !.notes = Append(@, <<name, "merge failed, needs review">>)]
        ELSE IF strategy = ASK
        THEN [acc EXCEPT
                !.needs_human_review = TRUE,
                !.notes = Append(@, <<name, "needs human decision">>)]
        ELSE acc

RECURSIVE ResolveFields(_, _, _)
ResolveFields(acc, fields, strat) ==
    IF fields = <<>> THEN acc
    ELSE ResolveFields(ResolveField(acc, Head(fields), strat), Tail(fields), strat)

\* the strategy_used expression of resolve
StrategyUsed(fields, strat) ==
    LET used == {StrategyGet(strat, fields[i].conflict_type, PyNone) :
                    i \in 1..Len(fields)}
    IN  IF Cardinality(used) > 1 THEN MERGE
        ELSE IF fields # <<>> THEN CHOOSE u \in used : TRUE
        ELSE ORG_WINS

\* the ConflictResolution that resolve(conflict) returns
Resolution(c, strat) ==
    LET acc == ResolveFields([org_changes |-> EmptyDict,
                              external_changes |-> EmptyDict,
                              needs_human_review |-> FALSE,
                              notes |-> <<>>],
                             c.fields, strat)
    IN  [strategy_used |-> StrategyUsed(c.fields, strat),
         org_changes |-> acc.org_changes,
         external_changes |-> acc.external_changes,
         needs_human_review |-> acc.needs_human_review,
         notes |-> acc.notes]

\* a variant of Resolved that marks the conflict whatever the review flag is
Resolved_always(c, res, now) ==
    [c EXCEPT !.resolved = TRUE,
              !.resolved_at = <<now>>,
              !.resolution_strategy = res.strategy_used,
              !.resolved_by = <<"a","u","t","o">>]

\* the conflict as resolve(conflict) leaves it; now is datetime.now()
Resolved(c, res, now) ==
    IF ~res.needs_human_review
    THEN [c EXCEPT !.resolved = TRUE,
                   !.resolved_at = <<now>>,
                   !.resolution_strategy = res.strategy_used,
                   !.resolved_by = <<"a","u","t","o">>]
    ELSE c

\* ConflictResolver.resolve: the returned resolution and the conflict as left
resolve(c, strat, now) ==
    LET res == Resolution(c, strat)
    IN  [resolution |-> res, conflict |-> Resolved(c, res, now)]

NoResolution == [none |-> TRUE]

-----------------------------------------------------------------------------
(* conflict.py: ConflictQueue over the sqlite table sync_conflicts.

   Time is counted in ticks; TicksPerUnit ticks make one whole unit of time,
   which stands both for the part of a timestamp that isoformat() always
   prints and for the day that cleanup counts in; a timestamp with a
   fraction of a unit prints the fraction after it, as isoformat() prints
   the microseconds only when they are not zero. *)

TicksPerUnit == 2
MaxClock == 3
MaxRows == 2
MaxDetectAge == 1

\* datetime.isoformat(): the text, as the sequence of its fixed-width parts
isoformat(t) ==
    IF t % TicksPerUnit = 0
    THEN <<t \div TicksPerUnit>>
    ELSE <<t \div TicksPerUnit, t % TicksPerUnit>>

\* datetime.fromisoformat()
fromisoformat(text) ==
    text[1] * TicksPerUnit + (IF Len(text) > 1 THEN text[2] ELSE 0)

\* a < b for two TEXT values in sqlite (memcmp, a proper prefix is smaller)
RECURSIVE TextLess(_, _)
TextLess(a, b) ==
    IF b = <<>> THEN FALSE
    ELSE IF a = <<>> THEN TRUE
    ELSE IF Head(a) # Head(b) THEN Head(a) < Head(b)
    ELSE TextLess(Tail(a), Tail(b))

\* SQL NULL of a TEXT column
NULL == <<>>

\* json.dumps(conflict_data): the "fields" list of add
ConflictData(c) ==
    [fields |->
        [i \in 1..Len(c.fields) |->
            [field_name |-> c.fields[i].field_name,
             conflict_type |-> c.fields[i].conflict_type,
             org_value |-> c.fields[i].org_value,
             external_value |-> c.fields[i].external_value]]]

\* the database as one connection sees it
Db(table, sequence) == [rows |-> table, seq |-> sequence]

\* INSERT INTO sync_conflicts (external_id, org_task_id, detected_at,
\* conflict_data) VALUES (...): the other columns take their defaults
Insert(db, c) ==
    LET id == db.seq + 1
        row == [id |-> id,
                external_id |-> c.external_id,
                org_task_id |-> c.org_task_id,
                detected_at |-> isoformat(c.detected_at),
                conflict_data |-> ConflictData(c),
                resolved |-> 0,
                resolved_at |-> NULL,
                resolution_strategy |-> PyNone,
                resolved_by |-> PyNone,
                resolution_notes |-> PyNone]
    IN  [db |-> Db(db.rows \cup {row}, id), result |-> id]

\* a variant of Update that reports success whatever rowcount is
Update_always(db, conflict_id, now, strategy, resolved_by, notes) ==
    LET hit == {r \in db.rows : r.id = conflict_id}
        set(r) == [r EXCEPT !.resolved = 1,
                            !.resolved_at = isoformat(now),
                            !.resolution_strategy = strategy,
                            !.resolved_by = resolved_by,
                            !.resolution_notes = notes]
    IN  [db |-> Db({IF r \in hit THEN set(r) ELSE r : r \in db.rows}, db.seq),
         result |-> TRUE]

\* UPDATE sync_conflicts SET resolved = 1, ... WHERE id = ?
Update(db, conflict_id, now, strategy, resolved_by, notes) ==
    LET hit == {r \in db.rows : r.id = conflict_id}
        set(r) == [r EXCEPT !.resolved = 1,
                            !.resolved_at = isoformat(now),
                            !.resolution_strategy = strategy,
                            !.resolved_by = resolved_by,
                            !.resolution_notes = notes]
    IN  [db |-> Db({IF r \in hit THEN set(r) ELSE r : r \in db.rows}, db.seq),
         result |-> Cardinality(hit) > 0]

\* a variant of Delete without the "resolved = 1" condition
Delete_any(db, cutoff) ==
    [db |-> Db({r \in db.rows :
                   ~(r.resolved_at # NULL /\ TextLess(r.resolved_at, cutoff))
                   /\ ~(r.resolved = 0)},
               db.seq),
     result |-> PyNone]

\* a variant of Delete that compares with the time of the call itself
Delete_nocutoff(db, cutoff) ==
    [db |-> Db({r \in db.rows :
                   ~(r.resolved = 1 /\ r.resolved_at # NULL
                     /\ TextLess(r.resolved_at,
                                 isoformat(fromisoformat(cutoff) + TicksPerUnit)))},
               db.seq),
     result |-> PyNone]

\* DELETE FROM sync_conflicts WHERE resolved = 1 AND resolved_at < ?
\* (a comparison with NULL is not true)
Delete(db, cutoff) ==
    [db |-> Db({r \in db.rows :
                   ~(r.resolved = 1 /\ r.resolved_at # NULL
                     /\ TextLess(r.resolved_at, cutoff))},
               db.seq),
     result |-> PyNone]

\* the statement of a queue call, run on the database db
Statement(args, db) ==
    IF args.op = "add" THEN Insert(db, args.conflict)
    ELSE IF args.op = "resolve"
    THEN Update(db, args.conflict_id, args.now, args.strategy,
                args.resolved_by, args.notes)
    ELSE Delete(db, args.cutoff)

\* the two sync invocations that may overlap
Procs == {"scheduled", "manual"}

NoArgs == [op |-> "none"]
NoTxn == [none |-> TRUE]

Str_gh2 == <<"g","h",":","r","#","2">>
ExternalIds == {<<"g","h",":","r","#","1">>, Str_gh2}

\* a Conflict as its caller hands it to add: one the resolver left for
\* review, or one the resolver has marked resolved (its "auto" stamp)
QueueConflict(external_id, detected_at, resolved) ==
    [id |-> PyNone,
     external_id |-> external_id,
     org_task_id |-> <<"t","1">>,
     detected_at |-> detected_at,
     fields |-> <<ConflictField("state", "state",
                                <<"D","O","N","E">>, <<"o","p","e","n">>)>>,
     resolved |-> resolved,
     resolved_at |-> IF resolved THEN <<detected_at>> ELSE <<>>,
     resolution_strategy |-> IF resolved THEN ORG_WINS ELSE PyNone,
     resolved_by |-> IF resolved THEN "auto" ELSE ""]

InitQueue ==
    /\ rows = {}
    /\ seq = 0
    /\ lock = PyNone
    /\ clock = 0
    /\ proc = [p \in Procs |->
                  [pc |-> "idle", args |-> NoArgs, txn |-> NoTxn]]

\* time passes while the sync invocations run
Tick ==
    /\ \E p \in Procs : proc[p].pc # "none"
    /\ clock < MaxClock
    /\ clock' = clock + 1
    /\ UNCHANGED <<rows, seq, lock, proc>>
    /\ UNCHANGED detVars
    /\ UNCHANGED engVars
    /\ UNCHANGED laterVars

\* a variant of CanWrite: the database takes no write lock
CanWrite_nolock(p) == TRUE

\* sqlite lets one connection write at a time; a connection that finds the
\* database locked waits for it (the busy handler), so its statement runs
\* only once the lock is free
CanWrite(p) == lock = PyNone

\* conn.execute(statement): the statement runs in the connection's own
\* transaction, on the committed database, holding the write lock
Execute(p, args) ==
    /\ proc[p].pc = "idle"
    /\ CanWrite(p)
    /\ lock' = p
    /\ proc' = [proc EXCEPT ![p] =
          [pc |-> "commit", args |-> args,
           txn |-> Statement(args, Db(rows, seq))]]
    /\ UNCHANGED <<rows, seq, clock>>
    /\ UNCHANGED detVars
    /\ UNCHANGED engVars
    /\ UNCHANGED laterVars

\* queue.add(conflict) up to its commit
Add(p) ==
    /\ seq < MaxRows
    /\ \E e \in ExternalIds, d \in 0..clock, resolved \in BOOLEAN :
          /\ clock - d <= MaxDetectAge
          /\ Execute(p, [op |-> "add",
                         conflict |-> QueueConflict(e, d, resolved)])

\* the strategy a reviewer picks for the conflict with the given id
ReviewStrategy(id) == IF id % 2 = 1 THEN ORG_WINS ELSE EXTERNAL_WINS

\* queue.resolve(conflict_id, strategy, resolved_by, notes) up to its
\* commit; datetime.now() is read
QueueResolve(p) ==
    \E id \in 1..MaxRows :
        Execute(p, [op |-> "resolve", conflict_id |-> id, now |-> clock,
                    strategy |-> ReviewStrategy(id), resolved_by |-> "human",
                    notes |-> ""])

\* queue.cleanup(days) up to its commit; the cutoff is computed from
\* datetime.now()
Cleanup(p) ==
    \E days \in {0, 1} :
        Execute(p, [op |-> "cleanup", days |-> days, now |-> clock,
                    cutoff |-> isoformat(clock - days * TicksPerUnit)])

\* conn.commit() and the return: the transaction's database becomes the
\* committed one; add stamps conflict.id with txn.result and returns it,
\* resolve returns txn.result (rowcount > 0)
Commit(p) ==
    /\ proc[p].pc = "commit"
    /\ rows' = proc[p].txn.db.rows
    /\ seq' = proc[p].txn.db.seq
    /\ lock' = PyNone
    /\ proc' = [proc EXCEPT ![p] =
          [pc |-> "idle", args |-> NoArgs, txn |-> NoTxn]]
    /\ UNCHANGED clock
    /\ UNCHANGED detVars
    /\ UNCHANGED engVars
    /\ UNCHANGED laterVars

\* the largest limit a caller of get_unresolved passes
MaxLimit == 3

\* ConflictQueue._row_to_conflict(row)
_row_to_conflict(row) ==
    [id |-> row.id,
     external_id |-> row.external_id,
     org_task_id |-> row.org_task_id,
     detected_at |-> fromisoformat(row.detected_at),
     fields |->
        [i \in 1..Len(row.conflict_data.fields) |->
            ConflictField(row.conflict_data.fields[i].field_name,
                          row.conflict_data.fields[i].conflict_type,
                          row.conflict_data.fields[i].org_value,
                          row.conflict_data.fields[i].external_value)],
     resolved |-> row.resolved # 0,
     resolved_at |-> IF row.resolved_at # NULL
                     THEN <<fromisoformat(row.resolved_at)>> ELSE <<>>,
     resolution_strategy |-> row.resolution_strategy,
     resolved_by |-> IF row.resolved_by = PyNone THEN "" ELSE row.resolved_by]

\* a variant of OrderByDetectedDesc: oldest first
OrderByDetectedDesc_asc(selected) ==
    {s \in [1..Cardinality(selected) -> selected] :
        /\ \A i, j \in DOMAIN s : i # j => s[i] # s[j]
        /\ \A i, j \in DOMAIN s :
              i < j => ~TextLess(s[j].detected_at, s[i].detected_at)}

\* ORDER BY detected_at DESC over the selected rows: every order the
\* database may return them in (rows with equal keys come in any order)
OrderByDetectedDesc(selected) ==
    {s \in [1..Cardinality(selected) -> selected] :
        /\ \A i, j \in DOMAIN s : i # j => s[i] # s[j]
        /\ \A i, j \in DOMAIN s :
              i < j => ~TextLess(s[i].detected_at, s[j].detected_at)}

\* LIMIT ?: a negative limit is no limit
Limit(s, limit) ==
    IF limit < 0 \/ limit >= Len(s) THEN s ELSE SubSeq(s, 1, limit)

\* SELECT * FROM sync_conflicts WHERE resolved = 0
\* ORDER BY detected_at DESC LIMIT ?: the lists get_unresolved may return
get_unresolved(table, limit) ==
    {[i \in 1..Len(Limit(s, limit)) |-> _row_to_conflict(s[i])] :
        s \in OrderByDetectedDesc({r \in table : r.resolved = 0})}

\* SELECT * FROM sync_conflicts WHERE external_id = ?
\* ORDER BY detected_at DESC LIMIT 1, fetchone(): the Optional[Conflict]
\* get_by_external_id may return
get_by_external_id(table, external_id) ==
    LET selected == {r \in table : r.external_id = external_id}
    IN  IF selected = {} THEN {<<>>}
        ELSE {<<_row_to_conflict(s[1])>> : s \in OrderByDetectedDesc(selected)}

\* queue.get_unresolved(limit): one SELECT on the committed database
GetUnresolved(p) ==
    /\ proc[p].pc = "idle"
    /\ \E limit \in 0..MaxLimit :
          \E conflicts \in get_unresolved(rows, limit) :
             proc' = [proc EXCEPT ![p] =
                 [pc |-> "read",
                  args |-> [op |-> "get_unresolved", limit |-> limit],
                  txn |-> [result |-> conflicts]]]
    /\ UNCHANGED <<rows, seq, lock, clock>>
    /\ UNCHANGED detVars
    /\ UNCHANGED engVars
    /\ UNCHANGED laterVars

\* queue.get_by_external_id(external_id): one SELECT on the committed
\* database
GetByExternalId(p) ==
    /\ proc[p].pc = "idle"
    /\ \E e \in ExternalIds :
          \E found \in get_by_external_id(rows, e) :
             proc' = [proc EXCEPT ![p] =
                 [pc |-> "read",
                  args |-> [op |-> "get_by_external_id", external_id |-> e],
                  txn |-> [result |-> found]]]
    /\ UNCHANGED <<rows, seq, lock, clock>>
    /\ UNCHANGED detVars
    /\ UNCHANGED engVars
    /\ UNCHANGED laterVars

\* the caller has taken the value a read returned
ReadReturn(p) ==
    /\ proc[p].pc = "read"
    /\ proc' = [proc EXCEPT ![p] =
          [pc |-> "idle", args |-> NoArgs, txn |-> NoTxn]]
    /\ UNCHANGED <<rows, seq, lock, clock>>
    /\ UNCHANGED detVars
    /\ UNCHANGED engVars
    /\ UNCHANGED laterVars


-----------------------------------------------------------------------------
(* engine.py: SyncEngine.pull_all over the registered adapters *)

MaxAdapters == 3
MaxChanges == 2

AdapterNames == <<"github", "calendar", "asana", "linear", "jira", "trello">>

\* an adapter as pull_all sees it: is_configured(), and what pull_changes
\* does when called: it raises, or returns its list of changes
Adapter(name, configured, raises, n) ==
    [name |-> name, configured |-> configured, raises |-> raises,
     changes |-> [k \in 1..n |-> <<name, k>>]]

InitEngine ==
    /\ \E n \in 0..MaxAdapters :
          adapters \in
             [1..n -> {Adapter(AdapterNames[i], c, r, m) :
                          i \in 1..MaxAdapters, c \in BOOLEAN,
                          r \in BOOLEAN, m \in 0..MaxChanges}]
    /\ \A i \in 1..Len(adapters) : adapters[i].name = AdapterNames[i]
    /\ \A i \in 1..Len(adapters) :
          adapters[i].raises => adapters[i].changes = <<>>
    /\ idx = 0
    /\ all_changes = <<>>
    /\ called = <<>>
    /\ errlog = <<>>
    /\ epc = "idle"

\* engine.pull_all(since) is called: all_changes = []
PullAll ==
    /\ epc = "idle"
    /\ epc' = "loop"
    /\ idx' = 1
    /\ all_changes' = <<>>
    /\ UNCHANGED <<adapters, called, errlog>>
    /\ UNCHANGED detVars
    /\ UNCHANGED queueVars
    /\ UNCHANGED laterVars

\* a variant of AfterPull in which an exception ends the loop
AfterPull_abort(i, raised) == IF raised THEN Len(adapters) + 1 ELSE i + 1

\* where the loop goes after adapter i was pulled: the except clause
\* swallows the exception and the loop goes on
AfterPull(i, raised) == i + 1

\* "if not adapter.is_configured(): continue"
IsPulled(adapter) == adapter.configured

\* one pass of the loop "for adapter_name, adapter in self.adapters.items()"
PullStep ==
    /\ epc = "loop"
    /\ idx <= Len(adapters)
    /\ LET adapter == adapters[idx]
       IN  IF ~IsPulled(adapter)
           THEN /\ idx' = idx + 1
                /\ UNCHANGED <<all_changes, called, errlog>>
           ELSE /\ called' = Append(called, adapter.name)
                /\ IF adapter.raises
                   THEN /\ errlog' = Append(errlog, adapter.name)
                        /\ UNCHANGED all_changes
                   ELSE /\ all_changes' = all_changes \o adapter.changes
                        /\ UNCHANGED errlog
                /\ idx' = AfterPull(idx, adapter.raises)
    /\ UNCHANGED <<adapters, epc>>
    /\ UNCHANGED detVars
    /\ UNCHANGED queueVars
    /\ UNCHANGED laterVars

\* "return all_changes"
PullReturn ==
    /\ epc = "loop"
    /\ idx > Len(adapters)
    /\ epc' = "done"
    /\ UNCHANGED <<adapters, idx, all_changes, called, errlog>>
    /\ UNCHANGED detVars
    /\ UNCHANGED queueVars
    /\ UNCHANGED laterVars

-----------------------------------------------------------------------------
(* engine.py: SyncEngine.push_all over the registered adapters *)

MaxPush == 3

\* the adapter names as Python str
Chars(name) ==
    CASE name = "github"   -> <<"g","i","t","h","u","b">>
      [] name = "calendar" -> <<"c","a","l","e","n","d","a","r">>
      [] name = "asana"    -> <<"a","s","a","n","a">>
      [] name = "linear"   -> <<"l","i","n","e","a","r">>
      [] name = "jira"     -> <<"j","i","r","a">>
      [] name = "trello"   -> <<"t","r","e","l","l","o">>

\* s.split(sep)[0]: the part of s before the first sep, all of s without one
RECURSIVE SplitFirst(_, _)
SplitFirst(s, sep) ==
    IF s = <<>> \/ Head(s) = sep THEN <<>>
    ELSE <<Head(s)>> \o SplitFirst(Tail(s), sep)

\* SyncResult(success=True)
SyncResult(success) ==
    [success |-> success, items_processed |-> 0, items_created |-> 0,
     items_updated |-> 0, items_failed |-> 0, errors |-> <<>>]

\* SyncResult.add_error(error)
add_error(r, error) ==
    [r EXCEPT !.errors = Append(@, error), !.items_failed = @ + 1]

\* a TaskChange as push_all sees it: org_task is <<>> for None, else <<task>>;
\* k tells the changes of one list apart
TaskChange(k, task) == [k |-> k, org_task |-> task]

\* "change.org_task and change.org_task.external_id"
HasExternalId(change) ==
    /\ change.org_task # <<>>
    /\ change.org_task[1].external_id # None
    /\ change.org_task[1].external_id # <<>>

\* changes_by_adapter[name].append(change), the key created when missing;
\* the dict is a sequence of [name, changes] in insertion order
GroupAppend(groups, name, change) ==
    IF \E i \in 1..Len(groups) : groups[i].name = name
    THEN [i \in 1..Len(groups) |->
             IF groups[i].name = name
             THEN [groups[i] EXCEPT !.changes = Append(@, change)]
             ELSE groups[i]]
    ELSE Append(groups, [name |-> name, changes |-> <<change>>])

\* the loop "for change in changes" that fills changes_by_adapter; keys are
\* the names of self.adapters
RECURSIVE GroupChanges(_, _, _)
GroupChanges(groups, chs, keys) ==
    IF chs = <<>> THEN groups
    ELSE LET change == Head(chs)
             next ==
                 IF HasExternalId(change)
                 THEN GroupAppend(groups,
                          SplitFirst(change.org_task[1].external_id, ":"),
                          change)
                 ELSE IF keys # <<>>
                 THEN GroupAppend(groups, Chars(keys[1]), change)
                 ELSE groups
         IN  GroupChanges(next, Tail(chs), keys)

\* self.adapters.get(adapter_name): the positions holding that key
AdapterGet(adapter_name) ==
    {i \in 1..Len(adapters) : Chars(adapters[i].name) = adapter_name}

\* what push_changes may hand back for a group of n changes
PushOutcomes(n) ==
    UNION {{[SyncResult(f = 0) EXCEPT !.items_processed = n,
                                      !.items_created = c,
                                      !.items_updated = n - f - c,
                                      !.items_failed = f,
                                      !.errors = [i \in 1..f |-> "item"]] :
               c \in {0, n - f}} :
           f \in 0..n}

\* the external ids of the changes handed to push_all
PushExternalIds ==
    {None, <<>>,
     <<"g","i","t","h","u","b",":","r","#","1">>,
     <<"c","a","l","e","n","d","a","r",":","p","/","e">>,
     <<"g","i","t","h","u","b">>,
     <<"t","r","e","l","l","o",":","t">>}

PushOrgTasks == {<<>>} \cup {<<[external_id |-> e]>> : e \in PushExternalIds}

InitPush ==
    /\ \E n \in 0..MaxAdapters :
          adapters = [i \in 1..n |-> Adapter(AdapterNames[i], TRUE, FALSE, 0)]
    /\ idx = 0
    /\ all_changes = <<>>
    /\ called = <<>>
    /\ errlog = <<>>
    /\ epc = "none"
    /\ \E n \in 0..MaxPush :
          \E ts \in [1..n -> PushOrgTasks] :
             changes = [k \in 1..n |-> TaskChange(k, ts[k])]
    /\ changes_by_adapter = <<>>
    /\ gidx = 0
    /\ pushed = <<>>
    /\ result = SyncResult(TRUE)
    /\ ppc = "idle"

\* engine.push_all(changes) is called: the result is created and the changes
\* are grouped
PushAll ==
    /\ ppc = "idle"
    /\ result' = SyncResult(TRUE)
    /\ changes_by_adapter' =
          GroupChanges(<<>>, changes,
                       [i \in 1..Len(adapters) |-> adapters[i].name])
    /\ gidx' = 1
    /\ ppc' = "loop"
    /\ UNCHANGED <<changes, pushed>>
    /\ UNCHANGED <<detVars, queueVars, engVars, syncVars, ghVars,
                 routerVars>>

\* a variant of AfterPush in which an exception ends the loop
AfterPush_abort(i, raised) ==
    IF raised THEN Len(changes_by_adapter) + 1 ELSE i + 1

\* where the loop goes after group i was pushed: the except clause records
\* the error and the loop goes on
AfterPush(i, raised) == i + 1

\* one pass of "for adapter_name, adapter_changes in changes_by_adapter.items()":
\* push_changes raises, or returns some outcome
PushStep ==
    /\ ppc = "loop"
    /\ gidx <= Len(changes_by_adapter)
    /\ LET group == changes_by_adapter[gidx]
           found == AdapterGet(group.name)
       IN  IF found = {}
           THEN /\ gidx' = gidx + 1
                /\ UNCHANGED <<pushed, result>>
           ELSE \E raised \in BOOLEAN :
                \E adapter_result \in
                      (IF raised THEN {SyncResult(TRUE)}
                       ELSE PushOutcomes(Len(group.changes))) :
                   /\ pushed' = Append(pushed,
                         [name |-> group.name, changes |-> group.changes,
                          raised |-> raised, outcome |-> adapter_result])
                   /\ result' =
                         IF raised
                         THEN add_error(result, "raised")
                         ELSE [result EXCEPT
                                  !.items_processed = @ + adapter_result.items_processed,
                                  !.items_created = @ + adapter_result.items_created,
                                  !.items_updated = @ + adapter_result.items_updated,
                                  !.items_failed = @ + adapter_result.items_failed,
                                  !.errors = @ \o adapter_result.errors]
                   /\ gidx' = AfterPush(gidx, raised)
    /\ UNCHANGED <<changes, changes_by_adapter, ppc>>
    /\ UNCHANGED <<detVars, queueVars, engVars, syncVars, ghVars,
                 routerVars>>

\* "result.success = result.items_failed == 0"
Success(r) == r.items_failed = 0

\* the end of push_all: success is set and the result returned
PushReturn ==
    /\ ppc = "loop"
    /\ gidx > Len(changes_by_adapter)
    /\ result' = [result EXCEPT !.success = Success(result)]
    /\ ppc' = "done"
    /\ UNCHANGED <<changes, changes_by_adapter, gidx, pushed>>
    /\ UNCHANGED <<detVars, queueVars, engVars, syncVars, ghVars,
                 routerVars>>

PushIdle ==
    /\ changes = <<>>
    /\ changes_by_adapter = <<>>
    /\ gidx = 0
    /\ pushed = <<>>
    /\ result = SyncResult(TRUE)
    /\ ppc = "none"

-----------------------------------------------------------------------------
(* engine.py: SyncEngine.sync, with github.py: GitHubAdapter.pull_changes *)

MaxSyncTime == 3
MaxIssues == 2

\* a datetime with its time and whether it carries a utc offset
SyncDatetime(t, aware) == [t |-> t, aware |-> aware]

\* datetime.datetime_now(): no offset
datetime_now(t) == SyncDatetime(t, FALSE)

\* datetime.fromisoformat(issue_data["updatedAt"].replace("Z", "+00:00")):
\* the offset is kept
ParseUpdatedAt(t) == SyncDatetime(t, TRUE)

\* a > b on datetimes: TypeError when exactly one of them carries an offset
DatetimeGreater(a, b) ==
    [raises |-> a.aware # b.aware, value |-> a.t > b.t]

\* a remote issue: odd numbers are open issues, even numbers closed ones
IssueState(number) == IF number % 2 = 1 THEN "open" ELSE "closed"
Issue(number, updated_at) ==
    [number |-> number, state |-> IssueState(number), updated_at |-> updated_at]

\* "if since is None or task.updated_at > since" for each listed issue:
\* the changes appended, or the exception of the comparison
FilterSince(listed, since) ==
    IF since = <<>>
    THEN [raised |-> FALSE, changes |-> listed]
    ELSE IF \E i \in listed :
               DatetimeGreater(ParseUpdatedAt(i.updated_at), since[1]).raises
    THEN [raised |-> TRUE, changes |-> {}]
    ELSE [raised |-> FALSE,
          changes |-> {i \in listed :
              DatetimeGreater(ParseUpdatedAt(i.updated_at), since[1]).value}]

\* GitHubAdapter.pull_changes(since): the open issues, then the closed ones;
\* a gh call that fails contributes nothing
pull_changes(remote, since, ok_open, ok_closed) ==
    LET open == IF ok_open THEN {i \in remote : i.state = "open"} ELSE {}
        closed == IF ok_closed THEN {i \in remote : i.state = "closed"} ELSE {}
        first == FilterSince(open, since)
        second == FilterSince(closed, since)
    IN  IF first.raised \/ second.raised
        THEN [raised |-> TRUE, changes |-> {}]
        ELSE [raised |-> FALSE, changes |-> first.changes \cup second.changes]

NoRun == [since |-> <<>>, at |-> 0, failed |-> FALSE, changes |-> {},
          prev_ok |-> <<>>]

InitSync ==
    /\ issues = {}
    /\ stime = 0
    /\ _last_sync = <<>>
    /\ run = NoRun
    /\ ok_pull = <<>>
    /\ spc = "idle"

\* time passes
SyncTick ==
    /\ spc # "none"
    /\ stime < MaxSyncTime
    /\ stime' = stime + 1
    /\ UNCHANGED <<issues, _last_sync, run, ok_pull, spc>>
    /\ UNCHANGED <<detVars, queueVars, engVars, pushVars, ghVars,
                 routerVars>>

\* somebody creates or edits an issue on the remote service
RemoteUpdate ==
    /\ spc # "none"
    /\ \E n \in 1..MaxIssues :
          issues' = {i \in issues : i.number # n} \cup {Issue(n, stime)}
    /\ issues' # issues
    /\ UNCHANGED <<stime, _last_sync, run, ok_pull, spc>>
    /\ UNCHANGED <<detVars, queueVars, engVars, pushVars, ghVars,
                 routerVars>>

\* sync(): "changes = self.pull_all(self._last_sync)"; pull_all swallows an
\* exception of the adapter's pull
SyncPull ==
    /\ spc = "idle"
    /\ \E ok_open \in BOOLEAN, ok_closed \in BOOLEAN :
          LET pulled == pull_changes(issues, _last_sync, ok_open, ok_closed)
              failed == ~ok_open \/ ~ok_closed \/ pulled.raised
          IN  /\ run' = [since |-> _last_sync, at |-> stime, failed |-> failed,
                         changes |-> pulled.changes, prev_ok |-> ok_pull]
              /\ ok_pull' = IF failed THEN ok_pull ELSE <<stime>>
    /\ spc' = "pulled"
    /\ UNCHANGED <<issues, stime, _last_sync>>
    /\ UNCHANGED <<detVars, queueVars, engVars, pushVars, ghVars,
                 routerVars>>

\* sync(): "self._last_sync = datetime.now()" and the return
SyncStamp ==
    /\ spc = "pulled"
    /\ _last_sync' = <<datetime_now(stime)>>
    /\ spc' = "idle"
    /\ UNCHANGED <<issues, stime, run, ok_pull>>
    /\ UNCHANGED <<detVars, queueVars, engVars, pushVars, ghVars,
                 routerVars>>

SyncIdle ==
    /\ issues = {}
    /\ stime = 0
    /\ _last_sync = <<>>
    /\ run = NoRun
    /\ ok_pull = <<>>
    /\ spc = "none"

-----------------------------------------------------------------------------
(* github.py: GitHubAdapter.push_changes against the remote repository *)

MaxGhChanges == 2
MaxGhRuns == 2
SEARCH_LIMIT == 5

\* position of the first c in s, 0 when there is none
IndexOf(s, c) ==
    IF \E i \in 1..Len(s) : s[i] = c
    THEN CHOOSE i \in 1..Len(s) : s[i] = c /\ \A j \in 1..(i - 1) : s[j] # c
    ELSE 0

DigitChars == <<"0","1","2","3","4","5","6","7","8","9">>

IsDigit(c) == \E d \in 1..10 : DigitChars[d] = c

\* the length of the run of digits s starts with
RECURSIVE DigitRun(_)
DigitRun(s) ==
    IF s = <<>> \/ ~IsDigit(Head(s)) THEN 0 ELSE 1 + DigitRun(Tail(s))

\* int(digits)
RECURSIVE ToInt(_)
ToInt(digits) ==
    IF digits = <<>> THEN 0
    ELSE 10 * ToInt(SubSeq(digits, 1, Len(digits) - 1))
         + (IndexOf(DigitChars, digits[Len(digits)]) - 1)

\* str(number)
RECURSIVE ToStr(_)
ToStr(n) ==
    IF n < 10 THEN <<DigitChars[n + 1]>>
    ELSE ToStr(n \div 10) \o <<DigitChars[(n % 10) + 1]>>

S_github_colon == <<"g","i","t","h","u","b",":">>
S_unknown == <<"u","n","k","n","o","w","n">>

\* f"github:{owner}/{repo}#{number}"
_make_external_id(owner, repo, number) ==
    S_github_colon \o owner \o <<"/">> \o repo \o <<"#">> \o ToStr(number)

\* re.match(r"github:([^/]+)/([^#]+)#(\d+)", external_id): ok is FALSE for
\* no match (None)
_parse_external_id(external_id) ==
    LET n == Len(S_github_colon)
        rest == SubSeq(external_id, n + 1, Len(external_id))
        slash == IndexOf(rest, "/")
        after == SubSeq(rest, slash + 1, Len(rest))
        hash == IndexOf(after, "#")
        tail == SubSeq(after, hash + 1, Len(after))
        digits == SubSeq(tail, 1, DigitRun(tail))
        ok == /\ Len(external_id) >= n
              /\ SubSeq(external_id, 1, n) = S_github_colon
              /\ slash >= 2
              /\ hash >= 2
              /\ digits # <<>>
    IN  [ok |-> ok,
         owner |-> IF ok THEN SubSeq(rest, 1, slash - 1) ELSE <<>>,
         repo |-> IF ok THEN SubSeq(after, 1, hash - 1) ELSE <<>>,
         number |-> IF ok THEN ToInt(digits) ELSE 0]

\* a variant of from_external_id that cuts the id at its first '#'
from_external_id_hash(external_id, url) ==
    [adapter |-> IF IndexOf(external_id, ":") > 0
                 THEN SplitFirst(external_id, "#") ELSE S_unknown,
     external_id |-> external_id,
     url |-> url]

\* ExternalTaskRef.from_external_id(external_id, url)
from_external_id(external_id, url) ==
    [adapter |-> IF IndexOf(external_id, ":") > 0
                 THEN SplitFirst(external_id, ":") ELSE S_unknown,
     external_id |-> external_id,
     url |-> url]

\* an issue of the remote repository
GhIssue(number, title, state) ==
    [number |-> number, title |-> title, state |-> state]

\* the repository the adapter is configured with
S_owner == <<"o">>
S_repo == <<"r">>

\* the first n elements of a list
Take(s, n) == SubSeq(s, 1, IF Len(s) < n THEN Len(s) ELSE n)

\* gh issue list --search '"<title>" in:title' --limit 5
SearchByTitle(remote, title) ==
    Take(SelectSeq(remote, LAMBDA i : Contains(lower(title), lower(i.title))),
         SEARCH_LIMIT)

\* GitHubAdapter.find_matching_task(task) when the gh call succeeds: the
\* reference of the first listed issue with the task's title, ignoring
\* case; found is FALSE for None
find_matching_task(repos, remote, task) ==
    LET listed == SearchByTitle(remote, task.title)
        hits == SelectSeq(listed, LAMBDA i : lower(i.title) = lower(task.title))
    IN  IF repos /\ hits # <<>>
        THEN [found |-> TRUE,
              ref |-> [adapter |-> Chars("github"),
                       external_id |->
                          _make_external_id(S_owner, S_repo, hits[1].number),
                       url |-> <<>>]]
        ELSE [found |-> FALSE, ref |-> from_external_id(<<>>, <<>>)]

\* what the remote repository holds after gh issue create
Created(remote, task) ==
    Append(remote, GhIssue(Len(remote) + 1, task.title, "open"))

\* what the remote repository holds after an issue was closed or reopened
WithState(remote, number, state) ==
    [i \in 1..Len(remote) |->
        IF remote[i].number = number
        THEN [remote[i] EXCEPT !.state = state] ELSE remote[i]]

\* what the remote repository holds after gh issue edit --title
WithTitle(remote, number, title) ==
    [i \in 1..Len(remote) |->
        IF remote[i].number = number
        THEN [remote[i] EXCEPT !.title = title] ELSE remote[i]]

Exists(remote, number) == \E i \in 1..Len(remote) : remote[i].number = number

\* the ways a gh call on an existing issue can end
GhOutcomes(remote, parsed) ==
    IF parsed.ok /\ Exists(remote, parsed.number)
    THEN {"ok", "fail"} ELSE {"fail"}

Truthy(s) == s # None /\ s # <<>>

\* the local task of a change
GhTask(title, state, external_id) ==
    [title |-> title, state |-> state, external_id |-> external_id]

\* a change handed to push_changes: org_task is <<>> for None, else <<task>>
GhChange(change_type, task) == [change_type |-> change_type, org_task |-> task]

\* the body of "for change in changes" for one change: the remote
\* repository, the result and the operation made, for one way out the gh
\* call can end
PushOne(repos, remote, res, change, out) ==
    LET task == change.org_task[1]
        parsed == _parse_external_id(task.external_id)
        counted(r) == [r EXCEPT !.items_processed = @ + 1]
        updated(r) == [r EXCEPT !.items_updated = @ + 1]
        created(r) == [r EXCEPT !.items_created = @ + 1]
        closing == task.state \in {"DONE", "CANCELLED"}
    IN  IF change.org_task = <<>>
        THEN [remote |-> remote, result |-> res, op |-> "skipped",
              failed |-> FALSE]
        ELSE IF change.change_type = "created"
        THEN IF repos /\ out = "ok"
             THEN [remote |-> Created(remote, task),
                   result |-> counted(created(res)),
                   op |-> "create", failed |-> FALSE]
             ELSE [remote |-> IF repos /\ out = "lost"
                              THEN Created(remote, task) ELSE remote,
                   result |-> counted(add_error(res, "create")),
                   op |-> "create", failed |-> TRUE]
        ELSE IF change.change_type = "state_changed" /\ Truthy(task.external_id)
        THEN IF closing
             THEN IF out = "ok"
                  THEN [remote |-> WithState(remote, parsed.number, "closed"),
                        result |-> counted(updated(res)),
                        op |-> "close", failed |-> FALSE]
                  ELSE [remote |-> remote,
                        result |-> counted(add_error(res, "close")),
                        op |-> "close", failed |-> TRUE]
             ELSE IF out = "ok"
                  THEN [remote |-> WithState(remote, parsed.number, "open"),
                        result |-> counted(updated(res)),
                        op |-> "reopen", failed |-> FALSE]
                  ELSE [remote |-> remote, result |-> counted(res),
                        op |-> "reopen", failed |-> TRUE]
        ELSE IF change.change_type = "updated" /\ Truthy(task.external_id)
        THEN IF out = "ok"
             THEN [remote |-> WithTitle(remote, parsed.number, task.title),
                   result |-> counted(updated(res)),
                   op |-> "update", failed |-> FALSE]
             ELSE [remote |-> remote,
                   result |-> counted(add_error(res, "update")),
                   op |-> "update", failed |-> TRUE]
        ELSE [remote |-> remote, result |-> counted(res), op |-> "none",
              failed |-> FALSE]

\* the ways out of the gh call that the change leads to
OutcomesOf(remote, change) ==
    IF change.org_task = <<>> THEN {"ok"}
    ELSE IF change.change_type = "created" THEN {"ok", "fail", "lost"}
    ELSE IF change.change_type \in {"state_changed", "updated"}
            /\ Truthy(change.org_task[1].external_id)
    THEN GhOutcomes(remote, _parse_external_id(change.org_task[1].external_id))
    ELSE {"ok"}

S_gh_ref1 == _make_external_id(S_owner, S_repo, 1)
S_gh_bad == <<"g","i","t","h","u","b",":","o","/","r","#">>

\* the title of the k-th local task
TitleOf(k) == <<"T">> \o ToStr(k)

\* the changes that may stand at position k of the list
GhChangesAt(k) ==
    {GhChange("updated", <<>>),
     GhChange("created", <<GhTask(TitleOf(k), "TODO", None)>>),
     GhChange("deleted", <<GhTask(TitleOf(k), "TODO", S_gh_ref1)>>)}
    \cup {GhChange("state_changed", <<GhTask(TitleOf(k), s, e)>>) :
             s \in {"DONE", "TODO"}, e \in {S_gh_ref1, S_gh_bad}}
    \cup {GhChange("state_changed", <<GhTask(TitleOf(k), "DONE", None)>>)}
    \cup {GhChange("updated", <<GhTask(TitleOf(k), "TODO", e)>>) :
             e \in {S_gh_ref1, S_gh_bad, None}}

InitGithub ==
    /\ gh_repos \in BOOLEAN
    /\ gh_issues \in {<<>>, <<GhIssue(1, <<"O","l","d">>, "open")>>,
                      <<GhIssue(1, <<"O","l","d">>, "closed")>>}
    /\ \E n \in 0..MaxGhChanges :
          \E cs \in [1..n -> UNION {GhChangesAt(k) : k \in 1..n}] :
             /\ \A k \in 1..n : cs[k] \in GhChangesAt(k)
             /\ gh_changes = cs
    /\ gh_i = 0
    /\ gh_result = SyncResult(TRUE)
    /\ gh_log = <<>>
    /\ gh_runs = 0
    /\ gpc = "idle"

\* adapter.push_changes(changes) is called, for the first time or again
\* with the same changes
GhPushCall ==
    /\ gpc \in {"idle", "done"}
    /\ gh_runs < MaxGhRuns
    /\ gh_runs' = gh_runs + 1
    /\ gh_result' = SyncResult(TRUE)
    /\ gh_log' = <<>>
    /\ gh_i' = 1
    /\ gpc' = "loop"
    /\ UNCHANGED <<gh_repos, gh_issues, gh_changes>>
    /\ UNCHANGED <<detVars, queueVars, engVars, pushVars, syncVars,
                 routerVars>>

\* one pass of "for change in changes"
GhPushStep ==
    /\ gpc = "loop"
    /\ gh_i <= Len(gh_changes)
    /\ \E out \in OutcomesOf(gh_issues, gh_changes[gh_i]) :
          LET one == PushOne(gh_repos, gh_issues, gh_result,
                             gh_changes[gh_i], out)
          IN  /\ gh_issues' = one.remote
              /\ gh_result' = one.result
              /\ gh_log' = Append(gh_log,
                                  [k |-> gh_i, op |-> one.op,
                                   failed |-> one.failed])
    /\ gh_i' = gh_i + 1
    /\ UNCHANGED <<gh_repos, gh_changes, gh_runs, gpc>>
    /\ UNCHANGED <<detVars, queueVars, engVars, pushVars, syncVars,
                 routerVars>>

\* "return result"
GhPushReturn ==
    /\ gpc = "loop"
    /\ gh_i > Len(gh_changes)
    /\ gpc' = "done"
    /\ UNCHANGED <<gh_repos, gh_issues, gh_changes, gh_i, gh_result, gh_log,
                   gh_runs>>
    /\ UNCHANGED <<detVars, queueVars, engVars, pushVars, syncVars,
                 routerVars>>

GithubIdle ==
    /\ gh_repos = FALSE
    /\ gh_issues = <<>>
    /\ gh_changes = <<>>
    /\ gh_i = 0
    /\ gh_result = SyncResult(TRUE)
    /\ gh_log = <<>>
    /\ gh_runs = 0
    /\ gpc = "none"

-----------------------------------------------------------------------------
(* router.py: TaskRouter.route, _evaluate_condition and external_to_org *)

MaxRules == 2

S_open == <<"o","p","e","n">>
S_true == <<"t","r","u","e">>
S_labels_contains == <<"l","a","b","e","l","s"," ","c","o","n","t","a","i","n","s"," ">>
S_assignee_eq == <<"a","s","s","i","g","n","e","e"," ","=","="," ">>
S_assignee_is_null == <<"a","s","s","i","g","n","e","e"," ","i","s"," ","n","u","l","l">>
S_no_external_id == <<"n","o"," ","e","x","t","e","r","n","a","l","_","i","d">>
S_ai_task == <<"a","i","-","t","a","s","k">>
S_ai_dash == <<"a","i","-">>
S_AI == <<":","A","I",":">>
S_bug == <<"b","u","g">>
S_Bug == <<"B","u","g">>
S_ai_x == <<"a","i","-","x">>
S_Bob == <<"B","o","b">>
Quotes == {"'", "\""}

\* the condition strings of the configured rules
Conditions ==
    {S_true,
     S_labels_contains \o <<"'">> \o S_bug \o <<"'">>,
     S_labels_contains \o <<"'">> \o S_bug \o <<"'">> \o <<" ","n","o","w">>,
     S_assignee_eq \o <<"'">> \o lower(S_Bob) \o <<"'">>,
     S_assignee_is_null,
     S_no_external_id,
     <<"l","a","b","e","l","s"," ","h","a","s"," ","'","b","u","g","'">>}

\* RoutingRule(source, condition, destination, tags, category, state);
\* __post_init__ replaces tags None by []
RoutingRule(source, condition, destination, tags, category, state) ==
    [source |-> source, condition |-> condition,
     destination |-> destination,
     tags |-> IF tags = None THEN <<>> ELSE tags,
     category |-> category, state |-> state]

\* the default rules of TaskRouter.__init__
DefaultRules ==
    <<RoutingRule("*", S_labels_contains \o <<"'">> \o S_ai_task \o <<"'">>,
                  "next_actions.org", <<S_AI>>, PyNone, PyNone),
      RoutingRule("*",
                  S_labels_contains \o <<"'">> \o S_priority_high \o <<"'">>,
                  "next_actions.org", None, PyNone, "NEXT"),
      RoutingRule("*", S_true, "inbox.org", None, PyNone, PyNone)>>

\* rule_config.get(key, default)
ConfigGet(rule_config, key, default) ==
    IF key \in DOMAIN rule_config THEN rule_config[key] ELSE default

\* TaskRouter._parse_rules(rules_config)
_parse_rules(rules_config) ==
    [i \in 1..Len(rules_config) |->
        RoutingRule(ConfigGet(rules_config[i], "source", "*"),
                    ConfigGet(rules_config[i], "condition", S_true),
                    ConfigGet(rules_config[i], "destination", "inbox.org"),
                    ConfigGet(rules_config[i], "tags", <<>>),
                    ConfigGet(rules_config[i], "category", PyNone),
                    ConfigGet(rules_config[i], "state", PyNone))]

\* TaskRouter.__init__: self.rules
RouterRules(rules_config) ==
    IF _parse_rules(rules_config) = <<>> THEN DefaultRules
    ELSE _parse_rules(rules_config)

\* re.match(prefix + r"['\"](.+)['\"]", condition): <<group(1)>>, or <<>>
\* when there is no match. The match starts at the beginning of the
\* condition and need not reach its end; ".+" is greedy and stops at a
\* line end, so the group runs up to the last quote of the first line.
MatchQuoted(prefix, condition) ==
    LET n == Len(prefix)
        rest == SubSeq(condition, n + 1, Len(condition))
        line == IF \E k \in 2..Len(rest) : rest[k] = "\n"
                THEN (CHOOSE k \in 2..Len(rest) :
                         /\ rest[k] = "\n"
                         /\ \A j \in 2..(k - 1) : rest[j] # "\n") - 1
                ELSE Len(rest)
        closing == {k \in 3..line : rest[k] \in Quotes}
        last == CHOOSE k \in closing : \A j \in closing : j <= k
    IN  IF /\ Len(condition) > n
           /\ SubSeq(condition, 1, n) = prefix
           /\ rest[1] \in Quotes
           /\ closing # {}
        THEN <<SubSeq(rest, 2, last - 1)>>
        ELSE <<>>

\* TaskRouter._evaluate_condition(condition, task), as route tests it
\* (a returned None or "" counts as False)
_evaluate_condition(cond, task) ==
    LET condition == lower(strip(cond))
        label == MatchQuoted(S_labels_contains, condition)
        expected == MatchQuoted(S_assignee_eq, condition)
    IN  IF condition = S_true THEN TRUE
        ELSE IF label # <<>>
        THEN \E i \in DOMAIN task.labels :
                lower(task.labels[i]) = lower(label[1])
        ELSE IF expected # <<>>
        THEN /\ task.assignee # None
             /\ task.assignee # <<>>
             /\ lower(task.assignee) = lower(expected[1])
        ELSE IF condition = S_assignee_is_null THEN task.assignee = None
        ELSE IF condition = S_no_external_id THEN TRUE
        ELSE FALSE

\* a variant of SourceMatches that ignores the rule's source
SourceMatches_any(rule, adapter) == TRUE

\* not (rule.source != "*" and rule.source != adapter_name)
SourceMatches(rule, adapter) == rule.source = "*" \/ rule.source = adapter

\* the dict route returns for a matching rule
RuleRouting(rule) ==
    [destination |-> rule.destination, tags |-> rule.tags,
     category |-> rule.category,
     state |-> IF rule.state = PyNone \/ rule.state = "" THEN "TODO"
               ELSE rule.state]

\* the dict route returns when no rule matches
DefaultRouting ==
    [destination |-> "inbox.org", tags |-> <<>>, category |-> PyNone,
     state |-> "TODO"]

\* external_to_org: "Determine state"
OrgState(task, routed) ==
    IF task.state \in {S_closed, S_done, S_completed} THEN "DONE"
    ELSE IF routed.state \in TaskState THEN routed.state
    ELSE "TODO"

\* external_to_org: "Determine priority from labels"
RECURSIVE OrgPriority(_)
OrgPriority(labels) ==
    IF labels = <<>> THEN PyNone
    ELSE IF Contains(S_high, lower(Head(labels)))
            \/ Head(labels) = S_priority_high THEN "A"
    ELSE IF Contains(S_medium, lower(Head(labels)))
            \/ Head(labels) = S_priority_medium THEN "B"
    ELSE IF Contains(S_low, lower(Head(labels)))
            \/ Head(labels) = S_priority_low THEN "C"
    ELSE OrgPriority(Tail(labels))

\* the tag of an "ai-" label
AiTag(label) ==
    IF label # S_ai_task
    THEN S_AI \o SubSeq(label, 4, Len(label)) \o <<":">>
    ELSE S_AI

\* external_to_org: "Build tags"
RECURSIVE OrgTags(_, _)
OrgTags(tags, labels) ==
    IF labels = <<>> THEN tags
    ELSE IF /\ Len(Head(labels)) >= 3
            /\ SubSeq(Head(labels), 1, 3) = S_ai_dash
            /\ \A i \in DOMAIN tags : tags[i] # AiTag(Head(labels))
    THEN OrgTags(Append(tags, AiTag(Head(labels))), Tail(labels))
    ELSE OrgTags(tags, Tail(labels))

\* a variant of RulesAfterTags for "tags = routing["tags"]": the list the
\* labels' tags are appended to is the matched rule's own list
RulesAfterTags_alias(rls, tried, tags) ==
    IF tried # <<>> /\ tried[Len(tried)].matched
    THEN [rls EXCEPT ![tried[Len(tried)].rule].tags = tags]
    ELSE rls

\* self.rules after "tags = list(routing["tags"])" and the appends to tags:
\* the appends go to a copy, the rules keep their lists
RulesAfterTags(rls, tried, tags) == rls

\* the OrgTask external_to_org returns
external_to_org(task, adapter, external_id, routed) ==
    [id |-> <<adapter, ":", task.id>>,
     title |-> task.title,
     state |-> OrgState(task, routed),
     priority |-> OrgPriority(task.labels),
     deadline |-> task.due_date,
     tags |-> OrgTags(routed.tags, task.labels),
     body |-> task.body,
     external_id |-> external_id,
     sync_status |-> "synced"]

\* ExternalTask(id, title, state, labels, assignee)
RouterTask(state, labels, assignee) ==
    [id |-> <<"1">>, title |-> <<"T">>, state |-> state, labels |-> labels,
     assignee |-> assignee, body |-> <<"X">>, due_date |-> NoDatetime]

\* the entries of the routing configuration: source, destination, tags and
\* state as they are configured together
RuleShapes ==
    {[source |-> "*", destination |-> "inbox.org"],
     [source |-> "github", destination |-> "next_actions.org",
      tags |-> <<S_AI>>, state |-> "NEXT"],
     [source |-> "calendar", destination |-> "calendar.org",
      category |-> "Events"]}

\* shape with the key "condition" set
WithCondition(shape, condition) ==
    [k \in (DOMAIN shape) \cup {"condition"} |->
        IF k = "condition" THEN condition ELSE shape[k]]

RuleConfigs == {WithCondition(s, c) : s \in RuleShapes, c \in Conditions}

\* the routing configurations of at most n rules
RECURSIVE RoutingConfigs(_)
RoutingConfigs(n) ==
    IF n = 0 THEN {<<>>}
    ELSE RoutingConfigs(n - 1) \cup
         {Append(c, r) : c \in {x \in RoutingConfigs(n - 1) : Len(x) = n - 1},
                         r \in RuleConfigs}

NoRouting == [none |-> TRUE]

InitRouter ==
    /\ rules \in {RouterRules(config) : config \in RoutingConfigs(MaxRules)}
    /\ rt_task \in {RouterTask(s, l, a) :
                       s \in {S_open, S_closed},
                       l \in {<<>>, <<S_Bug, S_ai_task, S_ai_x, S_ai_x>>},
                       a \in {None, S_Bob}}
    /\ rt_adapter \in {"github", "calendar"}
    /\ rt_i = 0
    /\ evaluated = <<>>
    /\ routing = NoRouting
    /\ new_task = NoRouting
    /\ rpc = "idle"

\* external_to_org(task, adapter_name, external_id) calls route
ExternalToOrg ==
    /\ rpc = "idle"
    /\ rt_i' = 1
    /\ rpc' = "route"
    /\ UNCHANGED <<rules, rt_task, rt_adapter, evaluated, routing, new_task>>
    /\ UNCHANGED <<detVars, queueVars, engVars, pushVars, syncVars, ghVars>>

\* one pass of route's loop over self.rules
RouteStep ==
    /\ rpc = "route"
    /\ rt_i <= Len(rules)
    /\ IF ~SourceMatches(rules[rt_i], rt_adapter)
       THEN /\ rt_i' = rt_i + 1
            /\ UNCHANGED <<evaluated, routing, rpc>>
       ELSE LET matched == _evaluate_condition(rules[rt_i].condition, rt_task)
            IN  /\ evaluated' = Append(evaluated,
                                       [rule |-> rt_i, matched |-> matched])
                /\ IF matched
                   THEN /\ routing' = RuleRouting(rules[rt_i])
                        /\ rpc' = "routed"
                        /\ UNCHANGED rt_i
                   ELSE /\ rt_i' = rt_i + 1
                        /\ UNCHANGED <<routing, rpc>>
    /\ UNCHANGED <<rules, rt_task, rt_adapter, new_task>>
    /\ UNCHANGED <<detVars, queueVars, engVars, pushVars, syncVars, ghVars>>

\* route's loop has ended without a match: "Default: inbox"
RouteDefault ==
    /\ rpc = "route"
    /\ rt_i > Len(rules)
    /\ routing' = DefaultRouting
    /\ rpc' = "routed"
    /\ UNCHANGED <<rules, rt_task, rt_adapter, rt_i, evaluated, new_task>>
    /\ UNCHANGED <<detVars, queueVars, engVars, pushVars, syncVars, ghVars>>

\* the rest of external_to_org: the OrgTask is built and returned
ExternalToOrgReturn ==
    /\ rpc = "routed"
    /\ new_task' = external_to_org(rt_task, rt_adapter, S_gh_ref1, routing)
    /\ rules' = RulesAfterTags(rules, evaluated, new_task'.tags)
    /\ rpc' = "done"
    /\ UNCHANGED <<rt_task, rt_adapter, rt_i, evaluated, routing>>
    /\ UNCHANGED <<detVars, queueVars, engVars, pushVars, syncVars, ghVars>>

RouterIdle ==
    /\ rules = <<>>
    /\ rt_task = NoRouting
    /\ rt_adapter = "none"
    /\ rt_i = 0
    /\ evaluated = <<>>
    /\ routing = NoRouting
    /\ new_task = NoRouting
    /\ rpc = "none"

LaterIdle == PushIdle /\ SyncIdle /\ GithubIdle /\ RouterIdle

-----------------------------------------------------------------------------
(* The inputs of detect and resolve *)

Str_open == <<"o","p","e","n">>
Str_T == <<"T","a","s","k">>
Str_gh1 == <<"g","h",":","r","#","1">>

OrgTask(state, title, body, priority, deadline) ==
    [id |-> <<"t","1">>, title |-> title, body |-> body, state |-> state,
     priority |-> priority, deadline |-> deadline, external_id |-> Str_gh1]

ExternalTask(state, title, body, labels, due_date) ==
    [id |-> <<"1">>, title |-> title, body |-> body, state |-> state,
     labels |-> labels, due_date |-> due_date]

\* The inputs are drawn in families: in the family of one field the two
\* sides range over all the values of that field and the other fields agree;
\* in the family "cross" every field takes a few values.
Families == {"state", "title", "description", "priority", "deadline", "cross"}

OrgStates(fam) ==
    IF fam = "state" THEN TaskState
    ELSE IF fam = "cross" THEN {"DONE", "WAITING"} ELSE {"TODO"}

ExtStates(fam) ==
    IF fam = "state"
    THEN {Str_open, S_closed, <<"C","l","o","s","e","d">>, <<"D","O","N","E">>,
          S_completed, <<"R","e","s","o","l","v","e","d">>,
          <<"t","o","d","o">>, <<"c","l","o","s","e">>, <<>>}
    ELSE IF fam = "cross" THEN {Str_open, <<"C","l","o","s","e","d">>}
    ELSE {Str_open}

OrgTitles(fam) ==
    IF fam = "title"
    THEN {Str_T, <<"[","W","I","P","]"," ">> \o Str_T, <<" ","t","a","s","k">>,
          <<"[","a","]","[","b","]","T">>, <<"[","T","a","s","k">>}
    ELSE {Str_T}

ExtTitles(fam) ==
    IF fam = "title"
    THEN {Str_T, <<"[","x","]">> \o Str_T, <<"T","a","s","k","2">>,
          <<"[","b","]","T">>, <<"[","t","a","s","k">>}
    ELSE IF fam = "cross" THEN {Str_T, <<"O","t","h","e","r">>}
    ELSE {Str_T}

\* a body one character longer than the detector's limit
LongBody(ch) == [i \in 1..(DESC_LIMIT + 1) |-> ch]

OrgBodies(fam) ==
    IF fam = "description"
    THEN {None, <<>>, <<" ">>, <<"X">>, <<"a"," ","b">>, <<"a","\n"," ","b">>,
          <<" ","a"," ","b","\n">>, <<"a","b">>, <<"A"," ","b">>,
          LongBody("x")}
    ELSE IF fam = "cross" THEN {<<"X">>, <<>>}
    ELSE {<<"X">>}

ExtBodies(fam) ==
    IF fam = "description"
    THEN {None, <<>>, <<"\n"," ">>, <<"X">>, <<"a"," ","b">>, <<"a"," "," ","b">>,
          <<"a","b">>, <<"\t","X">>, LongBody("y")}
    ELSE IF fam = "cross" THEN {<<"X">>, <<>>, <<"Y">>}
    ELSE {<<"X">>}

OrgPriorities(fam) ==
    IF fam = "priority" THEN Priority \cup {PyNone}
    ELSE IF fam = "cross" THEN {"A", PyNone} ELSE {"B"}

ExtLabels(fam) ==
    IF fam = "priority"
    THEN {<<>>, <<S_priority_low>>, <<S_priority_medium>>, <<S_priority_high>>,
          <<<<"b","u","g">>, S_p1>>, <<<<"P","1">>>>, <<S_p3, S_p2>>,
          <<<<"H","i","g","h","l","i","g","h","t">>>>, <<<<"b","u","g">>>>}
    ELSE IF fam = "cross" THEN {<<S_priority_low>>, <<>>}
    ELSE {<<S_priority_medium>>}

OrgDeadlines(fam) ==
    IF fam = "deadline"
    THEN {NoDatetime, Datetime(1, 0), Datetime(1, 9), Datetime(2, 0)}
    ELSE IF fam = "cross" THEN {NoDatetime, Datetime(1, 0)}
    ELSE {NoDatetime}

ExtDeadlines(fam) ==
    IF fam = "deadline"
    THEN {NoDatetime, Datetime(1, 0), Datetime(1, 17), Datetime(3, 0)}
    ELSE IF fam = "cross" THEN {NoDatetime, Datetime(2, 0)}
    ELSE {NoDatetime}

\* the configurations a ConflictResolver is built with: none, one strategy
\* for every type, or one type overridden
Configs ==
    {EmptyDict}
    \cup {[t \in ConflictType |-> s] : s \in ConflictStrategy}
    \cup {[t \in {u} |-> s] : u \in ConflictType, s \in ConflictStrategy}

-----------------------------------------------------------------------------
(* The other components at rest *)

QueueIdle ==
    /\ rows = {}
    /\ seq = 0
    /\ lock = PyNone
    /\ clock = 0
    /\ proc = [p \in Procs |-> [pc |-> "none", args |-> NoArgs, txn |-> NoTxn]]

EngineIdle ==
    /\ adapters = <<>>
    /\ idx = 0
    /\ all_changes = <<>>
    /\ called = <<>>
    /\ errlog = <<>>
    /\ epc = "none"

DetectorIdle ==
    /\ org_task = NoConflict
    /\ external_task = NoConflict
    /\ conflict = NoConflict
    /\ strategies = DEFAULT_STRATEGIES
    /\ resolution = NoResolution
    /\ pc = "idle"

-----------------------------------------------------------------------------
(* Detector and resolver: the caller's steps *)

InitConflict ==
    /\ \E fam \in Families :
          /\ org_task \in
                {OrgTask(s, t, b, p, d) :
                    s \in OrgStates(fam), t \in OrgTitles(fam),
                    b \in OrgBodies(fam), p \in OrgPriorities(fam),
                    d \in OrgDeadlines(fam)}
          /\ external_task \in
                {ExternalTask(s, t, b, l, d) :
                    s \in ExtStates(fam), t \in ExtTitles(fam),
                    b \in ExtBodies(fam), l \in ExtLabels(fam),
                    d \in ExtDeadlines(fam)}
    /\ conflict = NoConflict
    /\ strategies = DEFAULT_STRATEGIES
    /\ resolution = NoResolution
    /\ pc = "start"
    /\ QueueIdle
    /\ EngineIdle
    /\ LaterIdle

\* conflict = detector.detect(org_task, external_task)
Detect ==
    /\ pc = "start"
    /\ \E last_sync \in {NoDatetime, Datetime(0, 0)} :
          conflict' = detect(org_task, external_task, last_sync, clock)
    /\ pc' = IF conflict' = NoConflict THEN "no_conflict" ELSE "detected"
    /\ UNCHANGED <<org_task, external_task, strategies, resolution>>
    /\ UNCHANGED queueVars
    /\ UNCHANGED engVars
    /\ UNCHANGED laterVars

\* resolution = ConflictResolver(config).resolve(conflict)
Resolve ==
    /\ pc = "detected"
    /\ \E config \in Configs :
          /\ strategies' = ResolverStrategies(config)
          /\ resolution' = resolve(conflict, strategies', clock).resolution
          /\ conflict' = resolve(conflict, strategies', clock).conflict
    /\ pc' = "resolved"
    /\ UNCHANGED <<org_task, external_task>>
    /\ UNCHANGED queueVars
    /\ UNCHANGED engVars
    /\ UNCHANGED laterVars

NextConflict == Detect \/ Resolve

SpecConflict == InitConflict /\ [][NextConflict]_vars

-----------------------------------------------------------------------------
(* Conflict queue: two overlapping sync invocations *)

InitQueueSpec ==
    /\ InitQueue
    /\ DetectorIdle
    /\ EngineIdle
    /\ LaterIdle

NextQueue ==
    \/ Tick
    \/ \E p \in Procs : Add(p)
    \/ \E p \in Procs : QueueResolve(p)
    \/ \E p \in Procs : Cleanup(p)
    \/ \E p \in Procs : Commit(p)

SpecQueue == InitQueueSpec /\ [][NextQueue]_vars

-----------------------------------------------------------------------------
(* Conflict queue: one sync invocation that writes and reads *)

InitQueueRead ==
    /\ rows = {}
    /\ seq = 0
    /\ lock = PyNone
    /\ clock = 0
    /\ proc = [p \in Procs |->
                  [pc |-> IF p = "scheduled" THEN "idle" ELSE "none",
                   args |-> NoArgs, txn |-> NoTxn]]
    /\ DetectorIdle
    /\ EngineIdle
    /\ LaterIdle

NextQueueRead ==
    \/ NextQueue
    \/ \E p \in Procs : GetUnresolved(p)
    \/ \E p \in Procs : GetByExternalId(p)
    \/ \E p \in Procs : ReadReturn(p)

SpecQueueRead == InitQueueRead /\ [][NextQueueRead]_vars

-----------------------------------------------------------------------------
(* Sync engine: one pull_all *)

InitEngineSpec ==
    /\ InitEngine
    /\ DetectorIdle
    /\ QueueIdle
    /\ LaterIdle

NextEngine == PullAll \/ PullStep \/ PullReturn

SpecEngine == InitEngineSpec /\ [][NextEngine]_vars

-----------------------------------------------------------------------------
(* Sync engine: one push_all *)

InitPushSpec ==
    /\ InitPush
    /\ DetectorIdle
    /\ QueueIdle
    /\ SyncIdle
    /\ GithubIdle
    /\ RouterIdle

NextPush == PushAll \/ PushStep \/ PushReturn

SpecPush == InitPushSpec /\ [][NextPush]_vars

-----------------------------------------------------------------------------
(* Sync engine: repeated sync runs against a changing remote repository *)

InitSyncSpec ==
    /\ InitSync
    /\ DetectorIdle
    /\ QueueIdle
    /\ EngineIdle
    /\ PushIdle
    /\ GithubIdle
    /\ RouterIdle

NextSync == SyncTick \/ RemoteUpdate \/ SyncPull \/ SyncStamp

SpecSync == InitSyncSpec /\ [][NextSync]_vars

-----------------------------------------------------------------------------
(* Github adapter: push_changes, called once or again with the same changes *)

InitGithubSpec ==
    /\ InitGithub
    /\ DetectorIdle
    /\ QueueIdle
    /\ EngineIdle
    /\ PushIdle
    /\ SyncIdle
    /\ RouterIdle

NextGithub == GhPushCall \/ GhPushStep \/ GhPushReturn

SpecGithub == InitGithubSpec /\ [][NextGithub]_vars

-----------------------------------------------------------------------------
(* Task router: one external_to_org call *)

InitRouterSpec ==
    /\ InitRouter
    /\ DetectorIdle
    /\ QueueIdle
    /\ EngineIdle
    /\ PushIdle
    /\ SyncIdle
    /\ GithubIdle

NextRouter == ExternalToOrg \/ RouteStep \/ RouteDefault \/ ExternalToOrgReturn

SpecRouter == InitRouterSpec /\ [][NextRouter]_vars

-----------------------------------------------------------------------------
(* A remote task turned into a local one by the router and compared with
   its source by the detector; adapters/base.py: the default mappings *)

\* TaskSyncAdapter.map_state_from_external(external_state)
map_state_from_external(external_state) ==
    IF lower(external_state) \in {S_closed, S_done, S_completed, S_resolved}
    THEN "DONE"
    ELSE "TODO"

\* TaskSyncAdapter.map_priority_from_external(labels)
RECURSIVE map_priority_from_external(_)
map_priority_from_external(labels) ==
    IF labels = <<>> THEN PyNone
    ELSE LET label_lower == lower(Head(labels))
         IN  IF Contains(S_high, label_lower) \/ label_lower = S_p1 THEN "A"
             ELSE IF Contains(S_medium, label_lower) \/ label_lower = S_p2
             THEN "B"
             ELSE IF Contains(S_low, label_lower) \/ label_lower = S_p3
             THEN "C"
             ELSE map_priority_from_external(Tail(labels))

\* the remote tasks handed to external_to_org
RoundTripTasks ==
    {[RouterTask(s, l, None) EXCEPT !.body = b, !.due_date = d] :
        s \in {S_open, S_closed, <<"C","l","o","s","e","d">>, S_done,
               S_resolved, <<>>},
        l \in {<<>>, <<S_Bug>>, <<S_priority_high>>, <<S_p1>>, <<<<"P","2">>>>,
               <<S_Bug, <<"L","o","w">>>>},
        b \in {<<>>, <<"a"," ","b">>},
        d \in {NoDatetime, Datetime(1, 9)}}

\* the configured rules that set no state
StatelessRuleConfigs == {c \in RuleConfigs : "state" \notin DOMAIN c}

InitRoundTrip ==
    /\ rules \in {RouterRules(<<c>>) : c \in StatelessRuleConfigs}
    /\ rt_task \in RoundTripTasks
    /\ rt_adapter \in {"github", "calendar"}
    /\ rt_i = 0
    /\ evaluated = <<>>
    /\ routing = NoRouting
    /\ new_task = NoRouting
    /\ rpc = "idle"
    /\ DetectorIdle
    /\ QueueIdle
    /\ EngineIdle
    /\ PushIdle
    /\ SyncIdle
    /\ GithubIdle

\* conflict = detector.detect(new_task, task) on the task external_to_org
\* returned and the remote task it was built from
DetectRouted ==
    /\ rpc = "done"
    /\ pc = "idle"
    /\ org_task' = new_task
    /\ external_task' = rt_task
    /\ conflict' = detect(new_task, rt_task, NoDatetime, clock)
    /\ pc' = IF conflict' = NoConflict THEN "no_conflict" ELSE "detected"
    /\ UNCHANGED <<strategies, resolution>>
    /\ UNCHANGED queueVars
    /\ UNCHANGED engVars
    /\ UNCHANGED laterVars

NextRoundTrip ==
    ExternalToOrg \/ RouteStep \/ RouteDefault \/ ExternalToOrgReturn
       \/ DetectRouted

SpecRoundTrip == InitRoundTrip /\ [][NextRoundTrip]_vars

-----------------------------------------------------------------------------
(* Resolver: resolve on a conflict its caller has built *)

\* description texts and label lists of the conflicts handed to resolve
MergeTexts ==
    {<<"a","b","c">>, <<"a","b","c"," ">>, <<"A","B","C">>,
     <<"a","b","c"," ","d","e","f">>, <<"x","y","z">>, <<" ">>}

MergeLabels == {None, <<>>, <<"a">>, <<"a","b">>, <<"b","c">>}

\* Conflict(external_id, org_task_id, fields=[field])
HandedConflict(field) ==
    [external_id |-> Str_gh1,
     org_task_id |-> <<"t","1">>,
     fields |-> <<field>>,
     detected_at |-> 0,
     resolved |-> FALSE,
     resolved_at |-> <<>>,
     resolution_strategy |-> PyNone,
     resolved_by |-> <<>>]

InitMerge ==
    /\ conflict \in
          {HandedConflict(ConflictField("description", "description", o, e)) :
              o \in MergeTexts, e \in MergeTexts}
          \cup {HandedConflict(ConflictField("labels", "labels", o, e)) :
                    o \in MergeLabels, e \in MergeLabels}
          \cup {HandedConflict(ConflictField("title", "title", o, e)) :
                    o \in {<<"T">>}, e \in {<<"U">>, <<"V">>}}
    /\ org_task = NoConflict
    /\ external_task = NoConflict
    /\ strategies = DEFAULT_STRATEGIES
    /\ resolution = NoResolution
    /\ pc = "detected"
    /\ QueueIdle
    /\ EngineIdle
    /\ LaterIdle

NextMerge == Resolve

SpecMerge == InitMerge /\ [][NextMerge]_vars

-----------------------------------------------------------------------------
(* The components together *)

Init ==
    \/ InitConflict
    \/ InitQueueSpec
    \/ InitQueueRead
    \/ InitEngineSpec
    \/ InitPushSpec
    \/ InitSyncSpec
    \/ InitGithubSpec
    \/ InitRouterSpec
    \/ InitMerge
    \/ InitRoundTrip

Next ==
    \/ NextConflict
    \/ NextQueueRead
    \/ NextEngine
    \/ NextPush
    \/ NextSync
    \/ NextGithub
    \/ NextRouter
    \/ NextMerge
    \/ NextRoundTrip

Spec == Init /\ [][Next]_vars

-----------------------------------------------------------------------------
(* Properties of the detector and the resolver (SpecConflict) *)

\* detect has returned
Detected == pc \in {"detected", "no_conflict", "resolved"}

\* the names of the fields detect reported, in order
FieldNames ==
    IF conflict = NoConflict THEN <<>>
    ELSE [i \in 1..Len(conflict.fields) |-> conflict.fields[i].field_name]

Reports(name) == \E i \in 1..Len(FieldNames) : FieldNames[i] = name

\* a body has content: some character of it is not whitespace
HasContent(body) ==
    body # None /\ \E i \in 1..Len(body) : body[i] \notin Whitespace

\* the words of a text: its maximal runs of characters that are not
\* whitespace, in order
Words(body) == split(OrEmpty(body))

\* C1: detect reports a description field if and only if both bodies are
\* non-empty after trimming and their whitespace-normalized contents differ;
\* when either body is empty no description field is reported.
C1_DescriptionIff ==
    Detected =>
        (Reports("description") <=>
            /\ HasContent(org_task.body)
            /\ HasContent(external_task.body)
            /\ Words(org_task.body) # Words(external_task.body))

\* C1 happens: both sides have content, a description field is reported,
\* and the bodies differ in more than whitespace
C1_Witness ==
    /\ pc = "detected"
    /\ Reports("description")
    /\ org_task.body = <<"a","\n"," ","b">>
    /\ external_task.body = <<"a","b">>

\* s equals the word w ignoring case
EqualsIgnoreCase(s, w) ==
    /\ Len(s) = Len(w)
    /\ \A i \in 1..Len(s) : LowerChar(s[i]) = LowerChar(w[i])

OrgClosed == org_task.state \in {"DONE", "CANCELLED"}
ExternalClosed ==
    \E w \in {S_closed, S_done, S_completed, S_resolved} :
        EqualsIgnoreCase(external_task.state, w)

\* C2: detect reports a state field if and only if the coarse open/closed
\* flags of the two sides disagree (local DONE/CANCELLED is closed; a remote
\* state equal, ignoring case, to closed, done, completed or resolved is
\* closed); two open states never produce a state field.
C2_StateIff ==
    Detected => (Reports("state") <=> (OrgClosed # ExternalClosed))

\* C2 happens: a local open sub-state against a remote closed state written
\* in mixed case is reported
C2_Witness ==
    /\ pc = "detected"
    /\ Reports("state")
    /\ org_task.state = "WAITING"
    /\ external_task.state = <<"C","l","o","s","e","d">>

\* the priority the remote label list carries, PyNone when none
ExternalPriority == _extract_priority_from_labels(external_task.labels)

OrgHasPriority == org_task.priority \in {"A", "B", "C"}
ExternalHasPriority == ExternalPriority # PyNone

\* C3: for the description, priority and deadline checks, when exactly one
\* side carries a value for the field, detect reports no field for it.
C3_OneSidedNeverReported ==
    Detected =>
        /\ (HasContent(org_task.body) # HasContent(external_task.body))
              => ~Reports("description")
        /\ (OrgHasPriority # ExternalHasPriority) => ~Reports("priority")
        /\ ((org_task.deadline = NoDatetime) # (external_task.due_date = NoDatetime))
              => ~Reports("deadline")

\* some field of the conflict is configured with strategy s
SomeFieldUses(s) ==
    \E i \in 1..Len(conflict.fields) :
        strategies[conflict.fields[i].conflict_type] = s

AllFieldsUse(s) ==
    \A i \in 1..Len(conflict.fields) :
        strategies[conflict.fields[i].conflict_type] = s

AutoResolved ==
    conflict.resolved /\ conflict.resolved_by = <<"a","u","t","o">>

\* C4: after resolve the conflict is marked resolved by "auto" if and only
\* if the resolution does not need human review; when some field's strategy
\* is ask, the resolution needs human review and the conflict stays
\* unresolved.
C4_ResolvedIffNoReview ==
    pc = "resolved" =>
        /\ AutoResolved <=> ~resolution.needs_human_review
        /\ conflict.resolved <=> ~resolution.needs_human_review
        /\ SomeFieldUses(ASK) =>
              resolution.needs_human_review /\ ~conflict.resolved

\* C4 happens: one field is ask, another field is not, and the conflict is
\* left unresolved
C4_Witness ==
    /\ pc = "resolved"
    /\ SomeFieldUses(ASK)
    /\ SomeFieldUses(ORG_WINS)
    /\ resolution.needs_human_review
    /\ ~conflict.resolved

\* C5: when every field of the conflict maps to local_wins (org_wins),
\* resolve needs no human review, puts every field's local value in the
\* push-to-remote map and nothing in the apply-locally map, and leaves the
\* conflict resolved by "auto".
C5_AllLocalWins ==
    (pc = "resolved" /\ AllFieldsUse(ORG_WINS)) =>
        /\ ~resolution.needs_human_review
        /\ DOMAIN resolution.external_changes =
              {conflict.fields[i].field_name : i \in 1..Len(conflict.fields)}
        /\ \A i \in 1..Len(conflict.fields) :
              resolution.external_changes[conflict.fields[i].field_name]
                 = conflict.fields[i].org_value
        /\ DOMAIN resolution.org_changes = {}
        /\ AutoResolved

\* C5 happens: a conflict of several fields, all org_wins, was resolved
C5_Witness ==
    /\ pc = "resolved"
    /\ AllFieldsUse(ORG_WINS)
    /\ Len(conflict.fields) >= 3

\* the scenario of C6
Scenario ==
    /\ org_task.state = "DONE"
    /\ org_task.priority = "A"
    /\ org_task.body = <<"X">>
    /\ org_task.deadline = NoDatetime
    /\ external_task.state = Str_open
    /\ external_task.labels = <<S_priority_low>>
    /\ external_task.body = <<>>
    /\ external_task.due_date = NoDatetime
    /\ external_task.title = org_task.title

\* C6: a local task {DONE, priority A, body "X"} against a remote task with
\* the same title and {open, ["priority-low"], body ""} gives a conflict
\* whose fields are exactly state and priority; with the default policy
\* resolve schedules both local values for push, nothing to apply locally,
\* and marks the conflict auto-resolved.
C6_Scenario ==
    /\ (Detected /\ Scenario) => FieldNames = <<"state", "priority">>
    /\ (pc = "resolved" /\ Scenario /\ strategies = DEFAULT_STRATEGIES) =>
          /\ DOMAIN resolution.external_changes = {"state", "priority"}
          /\ resolution.external_changes["state"] = <<"D","O","N","E">>
          /\ resolution.external_changes["priority"] = <<"A">>
          /\ DOMAIN resolution.org_changes = {}
          /\ ~resolution.needs_human_review
          /\ AutoResolved

\* C6 happens: the scenario was detected and resolved with the default policy
C6_Witness ==
    /\ pc = "resolved"
    /\ Scenario
    /\ strategies = DEFAULT_STRATEGIES
    /\ AutoResolved

-----------------------------------------------------------------------------
(* Properties of pull_all (SpecEngine) *)

\* the changes of the adapters that are configured and whose pull completed,
\* concatenated in adapter order
RECURSIVE CompletedChanges(_)
CompletedChanges(as) ==
    IF as = <<>> THEN <<>>
    ELSE (IF Head(as).configured /\ ~Head(as).raises
          THEN Head(as).changes ELSE <<>>)
         \o CompletedChanges(Tail(as))

\* the names of the configured adapters, in adapter order
ConfiguredNames ==
    LET conf == SelectSeq(adapters, LAMBDA a : a.configured)
    IN  [i \in 1..Len(conf) |-> conf[i].name]

\* C10: pull_all returns the concatenation, in adapter order, of the changes
\* of every configured adapter whose pull completed; an adapter whose pull
\* raises contributes nothing and does not stop the later adapters from
\* being pulled; an adapter that is not configured is never pulled.
C10_PullAll ==
    epc = "done" =>
        /\ all_changes = CompletedChanges(adapters)
        /\ called = ConfiguredNames

\* C10 happens: the first adapter raised, a later one returned changes, and
\* one adapter was not configured
C10_Witness ==
    /\ epc = "done"
    /\ Len(adapters) = 3
    /\ adapters[1].configured /\ adapters[1].raises
    /\ ~adapters[2].configured /\ adapters[2].changes # <<>>
    /\ adapters[3].configured /\ adapters[3].changes # <<>>
    /\ all_changes = adapters[3].changes

-----------------------------------------------------------------------------
(* Properties of the conflict queue (SpecQueue) *)

\* this step is the commit that ends p's call of op
Commits(p, op) ==
    /\ proc[p].pc = "commit"
    /\ proc[p].args.op = op
    /\ proc'[p].pc = "idle"

Ids(table) == {r.id : r \in table}

\* the time a stored timestamp stands for
TimeOf(text) == fromisoformat(text)

\* C7: cleanup(d) deletes exactly the records that are resolved and whose
\* resolved-at time is older than now minus d days; every unresolved record
\* and every resolved record that is not older than the cutoff remains, with
\* unchanged contents.
C7_CleanupExact ==
    [][\A p \in Procs :
          Commits(p, "cleanup") =>
             rows' = {r \in rows :
                        ~(/\ r.resolved = 1
                          /\ TimeOf(r.resolved_at)
                                < proc[p].args.now
                                  - proc[p].args.days * TicksPerUnit)}]_vars

\* C7 happens: a cleanup with a retention of one day is about to commit; it
\* deletes a record and keeps another
C7_Witness ==
    \E p \in Procs :
        /\ proc[p].pc = "commit"
        /\ proc[p].args.op = "cleanup"
        /\ proc[p].args.days = 1
        /\ proc[p].txn.db.rows # rows
        /\ proc[p].txn.db.rows # {}

\* C8: every queue record goes unresolved -> resolved -> removed: a record
\* stays as it is, unresolved, until a resolve of its id commits; a resolved
\* record never becomes unresolved; a record disappears only by a cleanup,
\* and only when it is resolved; a new record is unresolved and takes an id
\* never used before.
C8_Lifecycle ==
    [][/\ \A r \in rows :
             r.resolved = 0 =>
                \/ r \in rows'
                \/ /\ \E p \in Procs :
                         Commits(p, "resolve") /\ proc[p].args.conflict_id = r.id
                   /\ \E r2 \in rows' : r2.id = r.id /\ r2.resolved = 1
       /\ \A r \in rows :
             r.resolved = 1 => \A r2 \in rows' : r2.id = r.id => r2.resolved = 1
       /\ \A r \in rows :
             r.id \notin Ids(rows') =>
                r.resolved = 1 /\ \E p \in Procs : Commits(p, "cleanup")
       /\ \A r2 \in rows' :
             r2.id \notin Ids(rows) =>
                /\ r2.resolved = 0
                /\ r2.id > seq
                /\ \E p \in Procs : Commits(p, "add")]_vars

\* C8 happens: a record was added, resolved and removed, while a later
\* record is still in the queue
C8_Witness ==
    /\ \E id \in 1..seq : id \notin Ids(rows)
    /\ rows # {}

\* a committed row is whole: the columns of the INSERT are set, and the
\* resolution columns are set together or not at all
WholeRow(r) ==
    /\ r.id \in 1..seq
    /\ r.external_id \in ExternalIds
    /\ r.detected_at # NULL
    /\ Len(r.conflict_data.fields) > 0
    /\ \/ /\ r.resolved = 0
          /\ r.resolved_at = NULL
          /\ r.resolution_strategy = PyNone
          /\ r.resolved_by = PyNone
       \/ /\ r.resolved = 1
          /\ r.resolved_at # NULL
          /\ r.resolution_strategy \in ConflictStrategy
          /\ r.resolved_by # PyNone

\* the committed table is valid: whole rows, no id twice
ValidTable ==
    /\ \A r \in rows : WholeRow(r)
    /\ \A r1, r2 \in rows : r1.id = r2.id => r1 = r2

-----------------------------------------------------------------------------
(* Properties of push_all (SpecPush) *)

\* the change carries an external id
Referenced(c) ==
    c.org_task # <<>> /\ c.org_task[1].external_id \notin {None, <<>>}

\* the prefix of an external id: what stands before its first colon
PrefixOf(e) ==
    LET k == CHOOSE k \in 1..(Len(e) + 1) :
                 /\ k <= Len(e) => e[k] = ":"
                 /\ \A j \in 1..(k - 1) : e[j] # ":"
    IN  SubSeq(e, 1, k - 1)

\* the changes that belong to the i-th registered adapter, in list order
GroupOf(i) ==
    SelectSeq(changes,
        LAMBDA c : IF Referenced(c)
                   THEN PrefixOf(c.org_task[1].external_id)
                           = Chars(adapters[i].name)
                   ELSE i = 1)

\* the push_changes calls made on the i-th registered adapter
CallsOn(i) ==
    {j \in 1..Len(pushed) : pushed[j].name = Chars(adapters[i].name)}

\* the sum of a counter over the calls that returned
RECURSIVE SumReturned(_, _)
SumReturned(calls, counter) ==
    IF calls = <<>> THEN 0
    ELSE (IF Head(calls).raised THEN 0 ELSE Head(calls).outcome[counter])
         + SumReturned(Tail(calls), counter)

Raised == {j \in 1..Len(pushed) : pushed[j].raised}

\* C11: push_all groups each change under the adapter named by the prefix
\* of its external id, or under the first adapter when it has none; every
\* registered adapter with a non-empty group is pushed once, with exactly its
\* group, whether or not another adapter's push raised; the returned
\* counters are the sums of the returned outcomes, each raising push adds
\* one failure, and success holds iff the summed failed count is zero.
C11_PushAll ==
    ppc = "done" =>
        /\ \A i \in 1..Len(adapters) :
              IF GroupOf(i) = <<>>
              THEN CallsOn(i) = {}
              ELSE /\ Cardinality(CallsOn(i)) = 1
                   /\ \A j \in CallsOn(i) : pushed[j].changes = GroupOf(i)
        /\ \A j \in 1..Len(pushed) : \E i \in 1..Len(adapters) : j \in CallsOn(i)
        /\ result.items_processed = SumReturned(pushed, "items_processed")
        /\ result.items_created = SumReturned(pushed, "items_created")
        /\ result.items_updated = SumReturned(pushed, "items_updated")
        /\ result.items_failed =
              SumReturned(pushed, "items_failed") + Cardinality(Raised)
        /\ result.success <=> (result.items_failed = 0)

\* C11 happens: two groups were pushed, the first push raised, the second
\* returned with an item created, and one change without external id went
\* to the default adapter
C11_Witness ==
    /\ ppc = "done"
    /\ Len(pushed) = 2
    /\ pushed[1].raised
    /\ ~pushed[2].raised /\ pushed[2].outcome.items_created > 0
    /\ \E k \in 1..Len(changes) : ~Referenced(changes[k])
    /\ ~result.success

-----------------------------------------------------------------------------
(* Properties of sync (SpecSync) *)

\* C12: a sync run whose pull failed leaves the watermark where it was, and
\* a pull that completes returns every remote issue updated after the last
\* pull that completed, so that no remote update is skipped for good.
C12_Watermark ==
    /\ [](spc = "pulled" /\ ~run.failed =>
             \A i \in issues :
                (run.prev_ok = <<>> \/ i.updated_at > run.prev_ok[1])
                   => i \in run.changes)
    /\ [][(spc = "pulled" /\ run.failed /\ spc' = "idle")
             => _last_sync' = _last_sync]_vars

-----------------------------------------------------------------------------
(* Properties of the github adapter's push_changes (SpecGithub) *)

\* this step handles a change of type created that carries a local task
CreateStep ==
    /\ gpc = "loop"
    /\ gh_i <= Len(gh_changes)
    /\ gh_i' = gh_i + 1
    /\ gh_changes[gh_i].org_task # <<>>
    /\ gh_changes[gh_i].change_type = "created"

\* C13: creation is idempotent across retried pushes: when the remote
\* repository already holds an issue that find_matching_task finds by the
\* local task's title, pushing a created change for that task creates no
\* further issue.
C13_IdempotentCreate ==
    [][(/\ CreateStep
        /\ find_matching_task(gh_repos, gh_issues,
                              gh_changes[gh_i].org_task[1]).found)
          => gh_issues' = gh_issues]_vars

\* the log entries of the operations that failed
FailedOps == {j \in 1..Len(gh_log) : gh_log[j].failed}

\* C14: when push_changes returns, every change of the list was handled, and
\* for every change whose remote operation (create, update, close or reopen)
\* failed the failed counter was incremented and an error string recorded.
C14_FailuresCounted ==
    gpc = "done" =>
        /\ Len(gh_log) = Len(gh_changes)
        /\ gh_result.items_failed = Cardinality(FailedOps)
        /\ Len(gh_result.errors) = Cardinality(FailedOps)

-----------------------------------------------------------------------------
(* Properties of the conflict queue's resolve and reads *)

\* resolve(conflict_id, ...) of p commits and returns
ResolveCommit(p) ==
    /\ proc[p].pc = "commit"
    /\ proc[p].args.op = "resolve"
    /\ proc'[p].pc = "idle"

\* the ids of the conflicts in a list
ConflictIds(conflicts) == {conflicts[i].id : i \in DOMAIN conflicts}

\* C15: resolve(id, strategy, resolved_by, notes) on an id that is in the
\* queue returns True, and afterwards that record is resolved with the given
\* strategy and resolved_by and is in no list get_unresolved returns; on an
\* id that is not in the queue it returns False and no record changes.
C15_Resolve ==
    [][\A p \in Procs :
          ResolveCommit(p) =>
             LET a == proc[p].args
                 returned == proc[p].txn.result
             IN  IF \E r \in rows : r.id = a.conflict_id
                 THEN /\ returned = TRUE
                      /\ \E r \in rows' :
                            /\ r.id = a.conflict_id
                            /\ _row_to_conflict(r).resolved
                            /\ _row_to_conflict(r).resolution_strategy
                                  = a.strategy
                            /\ _row_to_conflict(r).resolved_by = a.resolved_by
                      /\ \A limit \in 0..MaxLimit :
                            \A conflicts \in get_unresolved(rows', limit) :
                               a.conflict_id \notin ConflictIds(conflicts)
                      /\ \A r \in rows' :
                            r.id # a.conflict_id => r \in rows
                 ELSE /\ returned = FALSE
                      /\ rows' = rows]_vars

\* a conflict has been resolved by a reviewer with external_wins, and a
\* resolve of an id that is no longer in the queue is about to return
C15_Witness ==
    /\ \E r \in rows :
          /\ r.resolved = 1
          /\ r.resolution_strategy = EXTERNAL_WINS
          /\ r.resolved_by = "human"
    /\ \E p \in Procs :
          /\ proc[p].pc = "commit"
          /\ proc[p].args.op = "resolve"
          /\ proc[p].txn.result = FALSE

\* the unresolved rows of the committed table
Unresolved == {r \in rows : r.resolved = 0}

\* C16: get_unresolved(limit) returns only unresolved records, each once, at
\* most limit of them, most recently detected first; when more than limit
\* unresolved records exist it returns limit of them and no record left out
\* was detected after a returned one.
C16_GetUnresolved ==
    \A p \in Procs :
       (proc[p].pc = "read" /\ proc[p].args.op = "get_unresolved") =>
          LET conflicts == proc[p].txn.result
              limit == proc[p].args.limit
          IN  /\ \A i \in DOMAIN conflicts :
                    /\ ~conflicts[i].resolved
                    /\ \E r \in Unresolved : r.id = conflicts[i].id
              /\ \A i, j \in DOMAIN conflicts :
                    i # j => conflicts[i].id # conflicts[j].id
              /\ Len(conflicts) <= limit
              /\ \A i, j \in DOMAIN conflicts :
                    i < j => conflicts[i].detected_at >= conflicts[j].detected_at
              /\ Cardinality(Unresolved) > limit => Len(conflicts) = limit
              /\ Cardinality(Unresolved) <= limit
                    => Len(conflicts) = Cardinality(Unresolved)
              /\ \A r \in Unresolved :
                    r.id \notin ConflictIds(conflicts) =>
                       \A i \in DOMAIN conflicts :
                          fromisoformat(r.detected_at)
                             <= conflicts[i].detected_at

\* get_unresolved(1) has returned one of two unresolved conflicts that
\* were detected at different times
C16_Witness ==
    /\ Cardinality(Unresolved) = 2
    /\ \E r, q \in Unresolved : r.detected_at # q.detected_at
    /\ \E p \in Procs :
          /\ proc[p].pc = "read"
          /\ proc[p].args.op = "get_unresolved"
          /\ proc[p].args.limit = 1
          /\ Len(proc[p].txn.result) = 1

\* add(conflict) of p commits and returns
AddCommit(p) ==
    /\ proc[p].pc = "commit"
    /\ proc[p].args.op = "add"
    /\ proc'[p].pc = "idle"

\* the attributes of a conflict that a read is said to give back
SameConflict(read, added) ==
    /\ read.external_id = added.external_id
    /\ read.org_task_id = added.org_task_id
    /\ read.detected_at = added.detected_at
    /\ read.fields = added.fields
    /\ read.resolved = added.resolved
    /\ read.resolution_strategy = added.resolution_strategy
    /\ read.resolved_by = added.resolved_by

\* C17: add returns the id of the new row, and the conflict read back under
\* that id, through get_by_external_id or get_unresolved, has the external
\* id, local task id, detection time, field list and resolution state
\* (resolved, strategy, resolved_by) of the conflict that was passed to add.
C17_RoundTrip ==
    [][\A p \in Procs :
          AddCommit(p) =>
             LET added == proc[p].args.conflict
                 id == proc[p].txn.result
             IN  /\ \A r \in rows : r.id # id
                 /\ \E r \in rows' :
                       r.id = id /\ SameConflict(_row_to_conflict(r), added)
                 /\ \A found \in get_by_external_id(rows', added.external_id) :
                       /\ found # <<>>
                       /\ found[1].id = id => SameConflict(found[1], added)
                 /\ \A conflicts \in get_unresolved(rows', MaxLimit) :
                       \A i \in DOMAIN conflicts :
                          conflicts[i].id = id
                             => SameConflict(conflicts[i], added)]_vars

\* the same for a conflict that is unresolved when it is passed to add
C17_RoundTripUnresolved ==
    [][\A p \in Procs :
          (AddCommit(p) /\ ~proc[p].args.conflict.resolved) =>
             LET added == proc[p].args.conflict
                 id == proc[p].txn.result
             IN  /\ \A r \in rows : r.id # id
                 /\ \E r \in rows' :
                       r.id = id /\ SameConflict(_row_to_conflict(r), added)
                 /\ \A found \in get_by_external_id(rows', added.external_id) :
                       /\ found # <<>>
                       /\ found[1].id = id => SameConflict(found[1], added)
                 /\ \A conflicts \in get_unresolved(rows', MaxLimit) :
                       \A i \in DOMAIN conflicts :
                          conflicts[i].id = id
                             => SameConflict(conflicts[i], added)]_vars

-----------------------------------------------------------------------------
(* Properties of the task router (SpecRouter) *)

\* the rules that apply to the task: their source admits the adapter and
\* their condition matches
Applicable ==
    {i \in DOMAIN rules :
        /\ rules[i].source = "*" \/ rules[i].source = rt_adapter
        /\ _evaluate_condition(rules[i].condition, rt_task)}

\* the first of a non-empty set of rule positions
First(positions) == CHOOSE i \in positions : \A j \in positions : i <= j

\* C18: route returns the destination, tags, category and state of the
\* first rule, in order, whose source is "*" or the adapter name and whose
\* condition matches the task, with state TODO when that rule forces none;
\* no rule of another source has its condition tried; when no rule applies
\* it returns inbox.org, no tags, no category and state TODO.
C18_Route ==
    /\ rpc = "routed" =>
          LET applicable == Applicable
              rule == rules[First(applicable)]
          IN  IF applicable = {}
              THEN /\ routing.destination = "inbox.org"
                   /\ routing.tags = <<>>
                   /\ routing.category = PyNone
                   /\ routing.state = "TODO"
              ELSE /\ routing.destination = rule.destination
                   /\ routing.tags = rule.tags
                   /\ routing.category = rule.category
                   /\ routing.state =
                         IF rule.state = PyNone THEN "TODO" ELSE rule.state
    /\ \A k \in DOMAIN evaluated :
          rules[evaluated[k].rule].source \in {"*", rt_adapter}

\* route has passed over a rule of another source whose condition matches
\* the task and has returned a later rule that forces no state
C18_Witness ==
    /\ rpc = "routed"
    /\ Applicable # {}
    /\ First(Applicable) = 2
    /\ rules[1].source \notin {"*", rt_adapter}
    /\ _evaluate_condition(rules[1].condition, rt_task)
    /\ rules[2].state = PyNone
    /\ routing.state = "TODO"

\* <<x>> when the condition is exactly  prefix 'x'  with a non-empty x that
\* holds no quote, <<>> otherwise
QuotedArg(prefix, condition) ==
    LET n == Len(prefix)
        x == SubSeq(condition, n + 2, Len(condition) - 1)
    IN  IF /\ Len(condition) >= n + 3
           /\ SubSeq(condition, 1, n) = prefix
           /\ condition[n + 1] = "'"
           /\ condition[Len(condition)] = "'"
           /\ \A i \in DOMAIN x : x[i] \notin Quotes
        THEN <<x>>
        ELSE <<>>

\* a condition of the four-form language matches a task
ConditionMatches(condition, task) ==
    IF condition = S_true THEN TRUE
    ELSE IF QuotedArg(S_labels_contains, condition) # <<>>
    THEN \E i \in DOMAIN task.labels :
            lower(task.labels[i])
               = lower(QuotedArg(S_labels_contains, condition)[1])
    ELSE IF QuotedArg(S_assignee_eq, condition) # <<>>
    THEN /\ task.assignee # None
         /\ task.assignee = QuotedArg(S_assignee_eq, condition)[1]
    ELSE IF condition = S_assignee_is_null THEN task.assignee = None
    ELSE FALSE

\* C19: every condition route evaluates matches the task exactly when it is
\* 'true', or "labels contains 'x'" and some label equals x ignoring case,
\* or "assignee == 'x'" and the task's assignee equals x, or
\* 'assignee is null' and the task has no assignee; a condition of no such
\* form matches no task.
C19_Conditions ==
    \A k \in DOMAIN evaluated :
       evaluated[k].matched
          = ConditionMatches(rules[evaluated[k].rule].condition, rt_task)

\* the same with the assignee compared ignoring case, for the conditions
\* that are exactly of one of the four forms
C19_FourForms ==
    \A k \in DOMAIN evaluated :
       LET condition == rules[evaluated[k].rule].condition
           arg == QuotedArg(S_assignee_eq, condition)
       IN  IF arg # <<>>
           THEN evaluated[k].matched
                   = (rt_task.assignee # None
                      /\ lower(rt_task.assignee) = lower(arg[1]))
           ELSE (\/ condition \in {S_true, S_assignee_is_null}
                 \/ QuotedArg(S_labels_contains, condition) # <<>>)
                   => evaluated[k].matched
                         = ConditionMatches(condition, rt_task)

\* the rule that route returned, <<>> when it returned the default
MatchedRule ==
    IF evaluated # <<>> /\ evaluated[Len(evaluated)].matched
    THEN <<rules[evaluated[Len(evaluated)].rule]>>
    ELSE <<>>

\* C20: the OrgTask external_to_org returns has the matched rule's forced
\* state whenever the rule forces one; only when it forces none is the state
\* DONE for a closed external task and TODO for an open one.
C20_ForcedState ==
    rpc = "done" =>
       new_task.state =
          IF MatchedRule # <<>> /\ MatchedRule[1].state # PyNone
          THEN MatchedRule[1].state
          ELSE IF rt_task.state = S_closed THEN "DONE" ELSE "TODO"

\* the same for external tasks that are open
C20_ForcedStateOpen ==
    (rpc = "done" /\ rt_task.state = S_open) =>
       new_task.state =
          IF MatchedRule # <<>> /\ MatchedRule[1].state # PyNone
          THEN MatchedRule[1].state
          ELSE "TODO"

\* the local tag derived from a label that starts with "ai-"
DerivedTag(label) ==
    IF label = S_ai_task THEN S_AI
    ELSE S_AI \o SubSeq(label, Len(S_ai_dash) + 1, Len(label)) \o <<":">>

\* the positions of the labels that start with "ai-"
AiLabels(task) ==
    {i \in DOMAIN task.labels :
        /\ Len(task.labels[i]) >= Len(S_ai_dash)
        /\ SubSeq(task.labels[i], 1, Len(S_ai_dash)) = S_ai_dash}

\* the tags of the rule route returned
MatchedTags == IF MatchedRule = <<>> THEN <<>> ELSE MatchedRule[1].tags

\* the first label position whose derived tag is the given tag
FirstLabelOf(tag) ==
    First({i \in AiLabels(rt_task) : DerivedTag(rt_task.labels[i]) = tag})

\* the number of times a tag occurs in a tag list
Occurrences(tag, tags) == Cardinality({i \in DOMAIN tags : tags[i] = tag})

-----------------------------------------------------------------------------
(* Further properties of the detector and the resolver (SpecConflict) *)

\* the priority a single label stands for
LabelClass(label) ==
    IF Contains(S_high, lower(label)) \/ label = S_p1 THEN "A"
    ELSE IF Contains(S_medium, lower(label)) \/ label = S_p2 THEN "B"
    ELSE IF Contains(S_low, lower(label)) \/ label = S_p3 THEN "C"
    ELSE PyNone

\* the priority derived from a label list: that of the first label, in list
\* order, that stands for one
DerivedPriority(labels) ==
    LET hits == {i \in DOMAIN labels : LabelClass(labels[i]) # PyNone}
    IN  IF hits = {} THEN PyNone ELSE LabelClass(labels[First(hits)])

\* the local priority, with both ways of having none taken as none
LocalPriority ==
    IF org_task.priority \in {PyNone, Priority_NONE} THEN PyNone
    ELSE org_task.priority

\* C22: detect reports a priority field if and only if the local priority
\* differs from the priority derived from the remote labels; a local task
\* with no priority (None or Priority.NONE) and a remote task with no
\* priority label are equal and yield no priority field.
C22_PriorityIff ==
    Detected =>
       (Reports("priority")
           <=> LocalPriority # DerivedPriority(external_task.labels))

\* the same with Priority.NONE taken as a priority of its own, different
\* from None
C22_PriorityIffMember ==
    Detected =>
       (Reports("priority")
           <=> org_task.priority # DerivedPriority(external_task.labels))

\* both sides have a deadline
BothDeadlines ==
    org_task.deadline # NoDatetime /\ external_task.due_date # NoDatetime

\* C23: detect reports a deadline field if and only if both sides have a
\* deadline and the two deadlines are on different days; deadlines on the
\* same day at different times of day do not conflict.
C23_DeadlineIff ==
    Detected =>
       (Reports("deadline")
           <=> (BothDeadlines
                /\ org_task.deadline.day # external_task.due_date.day))

\* detect has compared two deadlines on the same day at different hours
\* and reported no deadline field
C23_Witness ==
    /\ Detected
    /\ BothDeadlines
    /\ org_task.deadline.day = external_task.due_date.day
    /\ org_task.deadline.hour # external_task.due_date.hour
    /\ ~Reports("deadline")

\* the names of the five checks in detect's order, and whether each fires
\* on the two tasks
CheckOrder == <<"state", "title", "description", "priority", "deadline">>

Fires(name) ==
    IF name = "state"
    THEN _check_state_conflict(org_task, external_task) # NoField
    ELSE IF name = "title"
    THEN _check_title_conflict(org_task, external_task) # NoField
    ELSE IF name = "description"
    THEN _check_description_conflict(org_task, external_task) # NoField
    ELSE IF name = "priority"
    THEN _check_priority_conflict(org_task, external_task) # NoField
    ELSE _check_deadline_conflict(org_task, external_task) # NoField

FieldStrategies ==
    {strategies[conflict.fields[i].conflict_type] :
        i \in 1..Len(conflict.fields)}

\* C25: the resolution's strategy_used is the one configured strategy when
\* all fields of the conflict map to the same strategy, and otherwise a
\* "mixed" marker that is none of org_wins, external_wins, merge, ask; an
\* auto-resolved conflict records the same value.
C25_StrategyUsed ==
    pc = "resolved" =>
       /\ IF Cardinality(FieldStrategies) = 1
          THEN resolution.strategy_used \in FieldStrategies
          ELSE resolution.strategy_used \notin ConflictStrategy
       /\ conflict.resolved
             => conflict.resolution_strategy = resolution.strategy_used

\* the same without the requirement that the marker of the mixed case
\* differs from the four strategies
C25_StrategyUsedSingle ==
    pc = "resolved" =>
       /\ Cardinality(FieldStrategies) = 1
             => resolution.strategy_used \in FieldStrategies
       /\ conflict.resolved
             => conflict.resolution_strategy = resolution.strategy_used

\* a is contained in b when both are trimmed and compared ignoring case
ContainedIgnoringCase(a, b) == Contains(lower(strip(a)), lower(strip(b)))

\* merged is the two texts joined by a separator, the local one first
Joined(merged, o, e) ==
    /\ Len(merged) > Len(o) + Len(e)
    /\ SubSeq(merged, 1, Len(o)) = o
    /\ SubSeq(merged, Len(merged) - Len(e) + 1, Len(merged)) = e

\* the fields of the conflict whose configured strategy is merge
MergedFields ==
    {i \in DOMAIN conflict.fields :
        strategies[conflict.fields[i].conflict_type] = MERGE}

\* the value is scheduled for both sides under the field's name
OnBothSides(name, value) ==
    /\ name \in DOMAIN resolution.org_changes
    /\ name \in DOMAIN resolution.external_changes
    /\ resolution.org_changes[name] = value
    /\ resolution.external_changes[name] = value

\* what merge does with a labels field and with a field of another type
MergeOfLabelsAndOthers(f) ==
    IF f.conflict_type = "labels"
    THEN OnBothSides(f.field_name,
                     ListOfSet(Elements(f.org_value)
                                  \cup Elements(f.external_value)))
    ELSE /\ f.field_name \notin DOMAIN resolution.org_changes
         /\ f.field_name \notin DOMAIN resolution.external_changes
         /\ resolution.needs_human_review

\* C26 as stated: under merge a description field resolves to the longer of
\* the two texts when one is a substring of the other and otherwise to both
\* texts joined by a separator, scheduled for both sides; a labels field
\* resolves to the set union; a field of another type is put in neither map
\* and sets needs_human_review.
C26_MergeAsStated ==
    pc = "resolved" =>
       \A i \in MergedFields :
          LET f == conflict.fields[i]
              o == f.org_value
              e == f.external_value
          IN  IF f.conflict_type = "description"
              THEN /\ OnBothSides(f.field_name,
                                  resolution.org_changes[f.field_name])
                   /\ IF Contains(o, e) \/ Contains(e, o)
                      THEN resolution.org_changes[f.field_name]
                              = (IF Len(o) > Len(e) THEN o ELSE e)
                      ELSE Joined(resolution.org_changes[f.field_name], o, e)
              ELSE MergeOfLabelsAndOthers(f)

\* what resolve does: under merge a description field resolves to the remote text
\* when the local text, trimmed and ignoring case, is contained in the remote
\* one, else to the local text when the remote one is so contained in it,
\* and otherwise to both texts joined by a separator, scheduled for both
\* sides; a labels field resolves to the set union; a field of another type
\* is put in neither map and sets needs_human_review.
C26_MergeNormalised ==
    pc = "resolved" =>
       \A i \in MergedFields :
          LET f == conflict.fields[i]
              o == f.org_value
              e == f.external_value
          IN  IF f.conflict_type = "description"
              THEN /\ OnBothSides(f.field_name,
                                  resolution.org_changes[f.field_name])
                   /\ IF ContainedIgnoringCase(o, e)
                      THEN resolution.org_changes[f.field_name] = e
                      ELSE IF ContainedIgnoringCase(e, o)
                      THEN resolution.org_changes[f.field_name] = o
                      ELSE Joined(resolution.org_changes[f.field_name], o, e)
              ELSE MergeOfLabelsAndOthers(f)


-----------------------------------------------------------------------------
(* Further properties of push_all (SpecPush) *)

S_github_owner_repo_42 ==
    <<"g","i","t","h","u","b",":","o","w","n","e","r","/","r","e","p","o",
      "#","4","2">>

\* the positions of the groups of changes_by_adapter that hold the change
GroupsHolding(c) ==
    {g \in 1..Len(changes_by_adapter) :
        \E j \in 1..Len(changes_by_adapter[g].changes) :
           changes_by_adapter[g].changes[j] = c}

\* the changes whose external id has the form '<adapter>:<opaque-id>'
Prefixed ==
    {k \in 1..Len(changes) :
        /\ Referenced(changes[k])
        /\ IndexOf(changes[k].org_task[1].external_id, ":") > 0}

\* C27: the ExternalTaskRef built from an external id '<adapter>:<opaque-id>'
\* stores the id unchanged and its adapter is the text before the first ':',
\* the name under which push_all groups a change with that id;
\* 'github:owner/repo#42' gives adapter 'github' and the id itself.
C27_AdapterName ==
    /\ from_external_id(S_github_owner_repo_42, <<>>).adapter = Chars("github")
    /\ from_external_id(S_github_owner_repo_42, <<>>).external_id
          = S_github_owner_repo_42
    /\ ppc \in {"loop", "done"} =>
          \A k \in Prefixed :
             LET e == changes[k].org_task[1].external_id
                 ref == from_external_id(e, <<>>)
             IN  /\ ref.external_id = e
                 /\ ref.adapter = PrefixOf(e)
                 /\ GroupsHolding(changes[k]) # {}
                 /\ \A g \in GroupsHolding(changes[k]) :
                       changes_by_adapter[g].name = ref.adapter

\* a change with the id 'calendar:p/e' has been grouped under 'calendar'
C27_Witness ==
    /\ ppc = "loop"
    /\ \E k \in Prefixed :
          /\ changes[k].org_task[1].external_id
                = <<"c","a","l","e","n","d","a","r",":","p","/","e">>
          /\ \E g \in GroupsHolding(changes[k]) :
                changes_by_adapter[g].name = Chars("calendar")

-----------------------------------------------------------------------------
(* The description from detect to resolve (SpecConflict) *)

\* the bodies detect compared
LocalBody == strip(OrEmpty(org_task.body))
RemoteBody == strip(OrEmpty(external_task.body))

\* detect reported a description field and resolve merged it
DescriptionMerged ==
    /\ pc = "resolved"
    /\ \E i \in DOMAIN conflict.fields :
          conflict.fields[i].conflict_type = "description"
    /\ strategies["description"] = MERGE

\* C28: when detect reports a description conflict and resolve merges it,
\* the merged description scheduled for both sides contains the complete
\* local body and the complete remote body, or the complete longer body when
\* one contains the other, for bodies of any length.
C28_NoTextLost ==
    DescriptionMerged =>
       LET o == LocalBody
           e == RemoteBody
           merged == resolution.org_changes["description"]
       IN  /\ OnBothSides("description", merged)
           /\ IF Contains(o, e) \/ Contains(e, o)
              THEN Contains(IF Len(o) > Len(e) THEN o ELSE e, merged)
              ELSE Contains(o, merged) /\ Contains(e, merged)

\* the same for bodies within the detector's limit of which neither contains
\* the other when trimmed and compared ignoring case
C28_NoTextLostShort ==
    (/\ DescriptionMerged
     /\ Len(LocalBody) <= DESC_LIMIT
     /\ Len(RemoteBody) <= DESC_LIMIT
     /\ ~ContainedIgnoringCase(LocalBody, RemoteBody)
     /\ ~ContainedIgnoringCase(RemoteBody, LocalBody)) =>
       LET merged == resolution.org_changes["description"]
       IN  /\ OnBothSides("description", merged)
           /\ Contains(LocalBody, merged)
           /\ Contains(RemoteBody, merged)

\* the statement for a local body longer than the limit; it does not hold,
\* detect hands resolve the first DESC_LIMIT characters and an ellipsis
C28_LongBodyKept ==
    (DescriptionMerged /\ Len(LocalBody) > DESC_LIMIT) =>
       Contains(LocalBody, resolution.org_changes["description"])

\* the push_changes calls whose list of changes holds the change
CallsHolding(c) ==
    {j \in 1..Len(pushed) :
        \E n \in 1..Len(pushed[j].changes) : pushed[j].changes[n] = c}

\* the changes of the call that reached no adapter
Dropped == {k \in 1..Len(changes) : CallsHolding(changes[k]) = {}}

\* C29: every change passed to push_all is handed to exactly one adapter's
\* push_changes or is counted in the returned items_failed, so success = True
\* implies that every change reached an adapter; this includes a change
\* whose prefix names no registered adapter and a new item when no adapter is
\* registered.
C29_NoneDropped ==
    ppc = "done" =>
       /\ \A k \in 1..Len(changes) :
             Cardinality(CallsHolding(changes[k])) <= 1
       /\ result.items_failed >= Cardinality(Dropped)
       /\ result.success => Dropped = {}

\* the part that holds: no change is handed to two calls, and a change that
\* has an external id with the prefix of a registered adapter, or has none
\* while an adapter is registered, is handed to one
C29_HandedOnce ==
    ppc = "done" =>
       \A k \in 1..Len(changes) :
          /\ Cardinality(CallsHolding(changes[k])) <= 1
          /\ k \in Dropped =>
                IF Referenced(changes[k])
                THEN AdapterGet(PrefixOf(changes[k].org_task[1].external_id))
                        = {}
                ELSE adapters = <<>>

-----------------------------------------------------------------------------
(* The router's task against its source (SpecRoundTrip) *)

\* detect has compared the task external_to_org built with its source
Compared == rpc = "done" /\ pc \in {"detected", "no_conflict"}

ClosedStates == {"DONE", "CANCELLED"}

\* C30: the OrgTask external_to_org builds from a remote task, under a rule
\* that sets no state, produces no state, title, description, priority or
\* deadline conflict when detect compares it with that remote task: the
\* router, the detector and the adapters' default mappings classify every
\* remote state as open or closed and every label list as a priority alike.
C30_RoundTrip ==
    Compared =>
       /\ conflict = NoConflict
       /\ (new_task.state \in ClosedStates)
             <=> (map_state_from_external(rt_task.state) \in ClosedStates)
       /\ new_task.priority = map_priority_from_external(rt_task.labels)
       /\ new_task.priority = _extract_priority_from_labels(rt_task.labels)

\* the part that holds: the title, the description and the deadline are
\* copied and never in conflict
C30_CopiedFields ==
    (Compared /\ conflict # NoConflict) =>
       \A i \in DOMAIN conflict.fields :
          conflict.fields[i].field_name \in {"state", "priority"}
=============================================================================
